---------------------------- MODULE Spec2Model ----------------------------
(***************************************************************************)
(* Electric shape proxy and REST fallback routes of the `remote` crate.    *)
(*                                                                         *)
(*   crates/remote/src/shapes.rs                 the shape constants       *)
(*   crates/remote/src/shape_route.rs            ShapeScope, ShapeRoute,   *)
(*                                               build_proxy_handler       *)
(*   crates/remote/src/shape_routes.rs           all_shape_routes and the  *)
(*                                               fallback_list_* handlers  *)
(*   crates/remote/src/routes/electric_proxy.rs  proxy_table, ProxyError   *)
(*                                                                         *)
(* One request is in flight at a time; it advances in the steps of its     *)
(* handler (extraction, authorization check, data access, response) while  *)
(* organization membership changes underneath it.                          *)
(***************************************************************************)
EXTENDS Integers, Sequences, FiniteSets, TLC

(***************************************************************************)
(* Bounds of the model.                                                    *)
(***************************************************************************)
\* largest number of keys in the free-form part of a client query string
MaxClientParams == 2

\* "no value": an absent query parameter, path variable, request or response
None == "<none>"

(***************************************************************************)
(* Generic helpers.                                                        *)
(***************************************************************************)
Range(s) == { s[i] : i \in DOMAIN s }

RECURSIVE Concat(_)
\* the string spelled by a sequence of string pieces
Concat(pieces) ==
    IF pieces = << >> THEN "" ELSE Head(pieces) \o Concat(Tail(pieces))

RECURSIVE Flatten(_)
\* concatenation of a sequence of sequences
Flatten(ss) ==
    IF ss = << >> THEN << >> ELSE Head(ss) \o Flatten(Tail(ss))

\* the sequences that list every element of the finite set S exactly once
Orderings(S) ==
    { f \in [1..Cardinality(S) -> S] : \A x \in S : \E i \in DOMAIN f : f[i] = x }

(***************************************************************************)
(* shapes.rs: the shape constants.  where_clause is written as the pieces  *)
(* of the Rust string literal, each ordinal placeholder ($1, $2) a piece   *)
(* of its own; ShapeWhere spells the string.                               *)
(***************************************************************************)
PROJECTS_SHAPE ==
    [ name   |-> "PROJECTS_SHAPE",
      table  |-> "projects",
      where_clause |-> << "\"organization_id\" = ", "$1" >>,
      url    |-> "/shape/projects",
      params |-> << "organization_id" >> ]

\* NOTIFICATIONS_SHAPE declared without its second parameter
NOTIFICATIONS_SHAPE_OneParam ==
    [ name   |-> "NOTIFICATIONS_SHAPE",
      table  |-> "notifications",
      where_clause |-> << "\"organization_id\" = ", "$1", " AND \"user_id\" = ", "$2" >>,
      url    |-> "/shape/notifications",
      params |-> << "organization_id" >> ]

NOTIFICATIONS_SHAPE ==
    [ name   |-> "NOTIFICATIONS_SHAPE",
      table  |-> "notifications",
      where_clause |-> << "\"organization_id\" = ", "$1", " AND \"user_id\" = ", "$2" >>,
      url    |-> "/shape/notifications",
      params |-> << "organization_id", "user_id" >> ]

ORGANIZATION_MEMBERS_SHAPE ==
    [ name   |-> "ORGANIZATION_MEMBERS_SHAPE",
      table  |-> "organization_member_metadata",
      where_clause |-> << "\"organization_id\" = ", "$1" >>,
      url    |-> "/shape/organization_members",
      params |-> << "organization_id" >> ]

USERS_SHAPE ==
    [ name   |-> "USERS_SHAPE",
      table  |-> "users",
      where_clause |-> << "\"id\" IN (SELECT user_id FROM organization_member_metadata WHERE \"organization_id\" = ",
                          "$1", ")" >>,
      url    |-> "/shape/users",
      params |-> << "organization_id" >> ]

PROJECT_TAGS_SHAPE ==
    [ name   |-> "PROJECT_TAGS_SHAPE",
      table  |-> "tags",
      where_clause |-> << "\"project_id\" = ", "$1" >>,
      url    |-> "/shape/project/{project_id}/tags",
      params |-> << "project_id" >> ]

PROJECT_PROJECT_STATUSES_SHAPE ==
    [ name   |-> "PROJECT_PROJECT_STATUSES_SHAPE",
      table  |-> "project_statuses",
      where_clause |-> << "\"project_id\" = ", "$1" >>,
      url    |-> "/shape/project/{project_id}/project_statuses",
      params |-> << "project_id" >> ]

PROJECT_ISSUES_SHAPE ==
    [ name   |-> "PROJECT_ISSUES_SHAPE",
      table  |-> "issues",
      where_clause |-> << "\"project_id\" = ", "$1" >>,
      url    |-> "/shape/project/{project_id}/issues",
      params |-> << "project_id" >> ]

USER_WORKSPACES_SHAPE ==
    [ name   |-> "USER_WORKSPACES_SHAPE",
      table  |-> "workspaces",
      where_clause |-> << "\"owner_user_id\" = ", "$1" >>,
      url    |-> "/shape/user/workspaces",
      params |-> << "owner_user_id" >> ]

PROJECT_WORKSPACES_SHAPE ==
    [ name   |-> "PROJECT_WORKSPACES_SHAPE",
      table  |-> "workspaces",
      where_clause |-> << "\"project_id\" = ", "$1" >>,
      url    |-> "/shape/project/{project_id}/workspaces",
      params |-> << "project_id" >> ]

PROJECT_ISSUE_ASSIGNEES_SHAPE ==
    [ name   |-> "PROJECT_ISSUE_ASSIGNEES_SHAPE",
      table  |-> "issue_assignees",
      where_clause |-> << "\"issue_id\" IN (SELECT id FROM issues WHERE \"project_id\" = ", "$1", ")" >>,
      url    |-> "/shape/project/{project_id}/issue_assignees",
      params |-> << "project_id" >> ]

PROJECT_ISSUE_FOLLOWERS_SHAPE ==
    [ name   |-> "PROJECT_ISSUE_FOLLOWERS_SHAPE",
      table  |-> "issue_followers",
      where_clause |-> << "\"issue_id\" IN (SELECT id FROM issues WHERE \"project_id\" = ", "$1", ")" >>,
      url    |-> "/shape/project/{project_id}/issue_followers",
      params |-> << "project_id" >> ]

PROJECT_ISSUE_TAGS_SHAPE ==
    [ name   |-> "PROJECT_ISSUE_TAGS_SHAPE",
      table  |-> "issue_tags",
      where_clause |-> << "\"issue_id\" IN (SELECT id FROM issues WHERE \"project_id\" = ", "$1", ")" >>,
      url    |-> "/shape/project/{project_id}/issue_tags",
      params |-> << "project_id" >> ]

PROJECT_ISSUE_RELATIONSHIPS_SHAPE ==
    [ name   |-> "PROJECT_ISSUE_RELATIONSHIPS_SHAPE",
      table  |-> "issue_relationships",
      where_clause |-> << "\"issue_id\" IN (SELECT id FROM issues WHERE \"project_id\" = ", "$1", ")" >>,
      url    |-> "/shape/project/{project_id}/issue_relationships",
      params |-> << "project_id" >> ]

PROJECT_PULL_REQUESTS_SHAPE ==
    [ name   |-> "PROJECT_PULL_REQUESTS_SHAPE",
      table  |-> "pull_requests",
      where_clause |-> << "\"issue_id\" IN (SELECT id FROM issues WHERE \"project_id\" = ", "$1", ")" >>,
      url    |-> "/shape/project/{project_id}/pull_requests",
      params |-> << "project_id" >> ]

ISSUE_COMMENTS_SHAPE ==
    [ name   |-> "ISSUE_COMMENTS_SHAPE",
      table  |-> "issue_comments",
      where_clause |-> << "\"issue_id\" = ", "$1" >>,
      url    |-> "/shape/issue/{issue_id}/comments",
      params |-> << "issue_id" >> ]

ISSUE_REACTIONS_SHAPE ==
    [ name   |-> "ISSUE_REACTIONS_SHAPE",
      table  |-> "issue_comment_reactions",
      where_clause |-> << "\"comment_id\" IN (SELECT id FROM issue_comments WHERE \"issue_id\" = ", "$1", ")" >>,
      url    |-> "/shape/issue/{issue_id}/reactions",
      params |-> << "issue_id" >> ]

\* every shape constant of shapes.rs, in declaration order
DeclaredShapes ==
    << PROJECTS_SHAPE, NOTIFICATIONS_SHAPE, ORGANIZATION_MEMBERS_SHAPE, USERS_SHAPE,
       PROJECT_TAGS_SHAPE, PROJECT_PROJECT_STATUSES_SHAPE, PROJECT_ISSUES_SHAPE,
       USER_WORKSPACES_SHAPE, PROJECT_WORKSPACES_SHAPE,
       PROJECT_ISSUE_ASSIGNEES_SHAPE, PROJECT_ISSUE_FOLLOWERS_SHAPE,
       PROJECT_ISSUE_TAGS_SHAPE, PROJECT_ISSUE_RELATIONSHIPS_SHAPE,
       PROJECT_PULL_REQUESTS_SHAPE,
       ISSUE_COMMENTS_SHAPE, ISSUE_REACTIONS_SHAPE >>

\* ShapeExport::table
ShapeTable(shape) == shape.table

\* ShapeExport::where_clause: the predicate string sent upstream
ShapeWhere(shape) == Concat(shape.where_clause)

\* ShapeExport::url
ShapeUrl(shape) == shape.url

\* the ordinals n whose placeholder $n occurs in the shape's where clause
Placeholders(shape) ==
    { n \in 1..9 : ("$" \o ToString(n)) \in Range(shape.where_clause) }


(***************************************************************************)
(* shape_route.rs: scopes, fallback query types, HasQueryParams.           *)
(***************************************************************************)
\* enum ShapeScope
ShapeScope == { "Org", "OrgWithUser", "Project", "Issue", "User" }

\* an extractor of a handler's argument list; q names the type inside Query<_>
Ex(ex, q) == [ ex |-> ex, q |-> q ]

\* the extractor tuple HT of a handler: axum's marker type, then the arguments
ExtractorTuple(handler) == << Ex("M", "") >> \o handler.extractors

\* trait HasQueryParams<Q>: implemented for tuples of one to five elements
\* whose last element is Query<Q>, for any Q
HasQueryParams(ht) ==
    /\ Len(ht) \in 1..5
    /\ ht[Len(ht)].ex = "Query"

\* the query struct named by the handler's Query<_> extractor
QueryTypeOf(handler) ==
    LET qs == SelectSeq(handler.extractors, LAMBDA e : e.ex = "Query")
    IN  IF qs = << >> THEN None ELSE qs[1].q

\* the field of each fallback query struct (NoQueryParams has none)
QueryField(q) ==
    CASE q = "OrgFallbackQuery"     -> "organization_id"
      [] q = "ProjectFallbackQuery" -> "project_id"
      [] q = "IssueFallbackQuery"   -> "issue_id"
      [] OTHER                      -> None

(***************************************************************************)
(* shape_routes.rs: the fallback handlers.  Each is: the access check, the *)
(* repository list call and its arguments, the response field, and the     *)
(* message of the error returned when the list call fails.                 *)
(***************************************************************************)
FallbackHandler(name, q, ensure, repo, args, field, message) ==
    [ name       |-> name,
      extractors |-> << Ex("State", ""), Ex("Extension", ""), Ex("Query", q) >>,
      ensure     |-> ensure,
      repo       |-> repo,
      args       |-> args,
      field      |-> field,
      message    |-> message ]

fallback_list_projects ==
    FallbackHandler("fallback_list_projects", "OrgFallbackQuery", "ensure_member_access",
        "ProjectRepository::list_by_organization", << "organization_id" >>,
        "projects", "failed to list projects")

fallback_list_notifications ==
    FallbackHandler("fallback_list_notifications", "OrgFallbackQuery", "ensure_member_access",
        "NotificationRepository::list_by_organization_and_user", << "organization_id", "user_id" >>,
        "notifications", "failed to list notifications")

\* fallback_list_organization_members with the response field named after
\* the route rather than the table
fallback_list_organization_members_Members ==
    FallbackHandler("fallback_list_organization_members", "OrgFallbackQuery", "ensure_member_access",
        "organization_members::list_by_organization", << "organization_id" >>,
        "organization_members", "failed to list organization members")

fallback_list_organization_members ==
    FallbackHandler("fallback_list_organization_members", "OrgFallbackQuery", "ensure_member_access",
        "organization_members::list_by_organization", << "organization_id" >>,
        "organization_member_metadata", "failed to list organization members")

fallback_list_users ==
    FallbackHandler("fallback_list_users", "OrgFallbackQuery", "ensure_member_access",
        "organization_members::list_users_by_organization", << "organization_id" >>,
        "users", "failed to list users")

fallback_list_tags ==
    FallbackHandler("fallback_list_tags", "ProjectFallbackQuery", "ensure_project_access",
        "TagRepository::list_by_project", << "project_id" >>,
        "tags", "failed to list tags")

fallback_list_project_statuses ==
    FallbackHandler("fallback_list_project_statuses", "ProjectFallbackQuery", "ensure_project_access",
        "ProjectStatusRepository::list_by_project", << "project_id" >>,
        "project_statuses", "failed to list project statuses")

\* fallback_list_issues listing by the user's id where the project's is due
fallback_list_issues_ByUser ==
    FallbackHandler("fallback_list_issues", "ProjectFallbackQuery", "ensure_project_access",
        "IssueRepository::list_by_project", << "user_id" >>,
        "issues", "failed to list issues")

fallback_list_issues ==
    FallbackHandler("fallback_list_issues", "ProjectFallbackQuery", "ensure_project_access",
        "IssueRepository::list_by_project", << "project_id" >>,
        "issues", "failed to list issues")

fallback_list_project_workspaces ==
    FallbackHandler("fallback_list_project_workspaces", "ProjectFallbackQuery", "ensure_project_access",
        "WorkspaceRepository::list_by_project", << "project_id" >>,
        "workspaces", "failed to list workspaces")

fallback_list_issue_assignees ==
    FallbackHandler("fallback_list_issue_assignees", "ProjectFallbackQuery", "ensure_project_access",
        "IssueAssigneeRepository::list_by_project", << "project_id" >>,
        "issue_assignees", "failed to list issue assignees")

fallback_list_issue_followers ==
    FallbackHandler("fallback_list_issue_followers", "ProjectFallbackQuery", "ensure_project_access",
        "IssueFollowerRepository::list_by_project", << "project_id" >>,
        "issue_followers", "failed to list issue followers")

fallback_list_issue_tags ==
    FallbackHandler("fallback_list_issue_tags", "ProjectFallbackQuery", "ensure_project_access",
        "IssueTagRepository::list_by_project", << "project_id" >>,
        "issue_tags", "failed to list issue tags")

fallback_list_issue_relationships ==
    FallbackHandler("fallback_list_issue_relationships", "ProjectFallbackQuery", "ensure_project_access",
        "IssueRelationshipRepository::list_by_project", << "project_id" >>,
        "issue_relationships", "failed to list issue relationships")

fallback_list_pull_requests ==
    FallbackHandler("fallback_list_pull_requests", "ProjectFallbackQuery", "ensure_project_access",
        "PullRequestRepository::list_by_project", << "project_id" >>,
        "pull_requests", "failed to list pull requests")

\* fallback_list_user_workspaces taking the owner from the query string
fallback_list_user_workspaces_OwnerFromQuery ==
    FallbackHandler("fallback_list_user_workspaces", "OrgFallbackQuery", None,
        "WorkspaceRepository::list_by_owner", << "organization_id" >>,
        "workspaces", "failed to list workspaces")

fallback_list_user_workspaces ==
    FallbackHandler("fallback_list_user_workspaces", "NoQueryParams", None,
        "WorkspaceRepository::list_by_owner", << "user_id" >>,
        "workspaces", "failed to list workspaces")

fallback_list_issue_comments ==
    FallbackHandler("fallback_list_issue_comments", "IssueFallbackQuery", "ensure_issue_access",
        "IssueCommentRepository::list_by_issue", << "issue_id" >>,
        "issue_comments", "failed to list issue comments")

fallback_list_issue_comment_reactions ==
    FallbackHandler("fallback_list_issue_comment_reactions", "IssueFallbackQuery", "ensure_issue_access",
        "IssueCommentReactionRepository::list_by_issue", << "issue_id" >>,
        "issue_comment_reactions", "failed to list issue comment reactions")

(***************************************************************************)
(* shape_route.rs: ShapeRoute::new and build_proxy_handler's routing.      *)
(***************************************************************************)
\* the GET method router that build_proxy_handler returns for (shape, scope)
build_proxy_handler(shape, scope) ==
    [ kind |-> "proxy", shape |-> shape, scope |-> scope ]

\* get(fallback_handler)
get_fallback(handler) ==
    [ kind |-> "fallback", handler |-> handler ]

\* the where clause of ShapeRoute::new: the bounds a call must satisfy to compile
ShapeRouteNewCompiles(scope, handler) ==
    /\ scope \in ShapeScope
    /\ HasQueryParams(ExtractorTuple(handler))

\* ShapeRoute::new without the fallback route
ShapeRouteNew_ProxyOnly(shape, scope, fallback_url, fallback_handler) ==
    [ router       |-> << [ method |-> "GET", path |-> ShapeUrl(shape),
                            handler |-> build_proxy_handler(shape, scope) ] >>,
      shape        |-> shape,
      fallback_url |-> fallback_url ]

\* ShapeRoute::new: a router with the proxy route and the fallback route
ShapeRouteNew(shape, scope, fallback_url, fallback_handler) ==
    [ router       |-> << [ method |-> "GET", path |-> ShapeUrl(shape),
                            handler |-> build_proxy_handler(shape, scope) ],
                          [ method |-> "GET", path |-> fallback_url,
                            handler |-> get_fallback(fallback_handler) ] >>,
      shape        |-> shape,
      fallback_url |-> fallback_url ]

\* shape_routes.rs: all_shape_routes
all_shape_routes ==
    << ShapeRouteNew(PROJECTS_SHAPE, "Org", "/fallback/projects", fallback_list_projects),
       ShapeRouteNew(NOTIFICATIONS_SHAPE, "OrgWithUser", "/fallback/notifications", fallback_list_notifications),
       ShapeRouteNew(ORGANIZATION_MEMBERS_SHAPE, "Org", "/fallback/organization_members", fallback_list_organization_members),
       ShapeRouteNew(USERS_SHAPE, "Org", "/fallback/users", fallback_list_users),
       ShapeRouteNew(PROJECT_TAGS_SHAPE, "Project", "/fallback/tags", fallback_list_tags),
       ShapeRouteNew(PROJECT_PROJECT_STATUSES_SHAPE, "Project", "/fallback/project_statuses", fallback_list_project_statuses),
       ShapeRouteNew(PROJECT_ISSUES_SHAPE, "Project", "/fallback/issues", fallback_list_issues),
       ShapeRouteNew(USER_WORKSPACES_SHAPE, "User", "/fallback/user_workspaces", fallback_list_user_workspaces),
       ShapeRouteNew(PROJECT_WORKSPACES_SHAPE, "Project", "/fallback/project_workspaces", fallback_list_project_workspaces),
       ShapeRouteNew(PROJECT_ISSUE_ASSIGNEES_SHAPE, "Project", "/fallback/issue_assignees", fallback_list_issue_assignees),
       ShapeRouteNew(PROJECT_ISSUE_FOLLOWERS_SHAPE, "Project", "/fallback/issue_followers", fallback_list_issue_followers),
       ShapeRouteNew(PROJECT_ISSUE_TAGS_SHAPE, "Project", "/fallback/issue_tags", fallback_list_issue_tags),
       ShapeRouteNew(PROJECT_ISSUE_RELATIONSHIPS_SHAPE, "Project", "/fallback/issue_relationships", fallback_list_issue_relationships),
       ShapeRouteNew(PROJECT_PULL_REQUESTS_SHAPE, "Project", "/fallback/pull_requests", fallback_list_pull_requests),
       ShapeRouteNew(ISSUE_COMMENTS_SHAPE, "Issue", "/fallback/issue_comments", fallback_list_issue_comments),
       ShapeRouteNew(ISSUE_REACTIONS_SHAPE, "Issue", "/fallback/issue_comment_reactions", fallback_list_issue_comment_reactions) >>

\* electric_proxy.rs: router(): the merge of every ShapeRoute's router
ElectricProxyRouter(shape_routes) ==
    Flatten([ i \in DOMAIN shape_routes |-> shape_routes[i].router ])

(***************************************************************************)
(* Identifiers.  A Uuid is a number; its text form is parsed by the        *)
(* extractors (serde, case-insensitive) and written back, in lower case,   *)
(* by Uuid::to_string.                                                     *)
(***************************************************************************)
\* ctx.user.id of the authenticated users
Users == { 1, 2 }

\* the result of parsing a text that is not a UUID, and the absent UUID
NoUuid == -1

\* Uuid::deserialize / Uuid::parse_str on the texts the model sends
UuidParse(text) ==
    CASE text \in { "01" }       -> 1
      [] text \in { "02" }       -> 2
      [] text \in { "0a", "0A" } -> 10
      [] text \in { "0b", "0B" } -> 11
      [] OTHER                   -> NoUuid

\* Uuid::to_string: the canonical lower-case text
UuidToString(uuid) ==
    CASE uuid = 1  -> "01"
      [] uuid = 2  -> "02"
      [] uuid = 10 -> "0a"
      [] uuid = 11 -> "0b"
      [] OTHER     -> "??"


\* the texts a client sends where a scope key is expected
RawUuids == { "0a", "0B", "zz" }

(***************************************************************************)
(* The data store as far as the access checks read it.  The checks         *)
(* themselves, the assert_ functions of db::organization_members and the   *)
(* ensure_ functions of routes::organization_members, are the relations:   *)
(* membership in the organization, or in the organization that owns the    *)
(* project, or in the one that owns the issue's project.                   *)
(***************************************************************************)
\* the organizations
Orgs == { 10, 11 }

\* the (user, organization) pairs that may be members at some time
MemberPairs == Users \X Orgs

\* projects.organization_id
ProjectOrg(project_id) ==
    CASE project_id = 10 -> 10
      [] project_id = 11 -> 11
      [] OTHER           -> NoUuid

\* issues.project_id
IssueProject(issue_id) ==
    CASE issue_id = 10 -> 11
      [] issue_id = 11 -> 10
      [] OTHER         -> NoUuid

\* the relationship each access check requires of (key, user)
HasAccess(mem, check, key, user) ==
    CASE check \in { "assert_membership", "ensure_member_access" } ->
            << user, key >> \in mem
      [] check \in { "assert_project_access", "ensure_project_access" } ->
            << user, ProjectOrg(key) >> \in mem
      [] check \in { "assert_issue_access", "ensure_issue_access" } ->
            << user, ProjectOrg(IssueProject(key)) >> \in mem
      [] OTHER -> FALSE

(***************************************************************************)
(* electric_proxy.rs: proxy_table's upstream URL.  A URL query is the      *)
(* sequence of (key, value) pairs appended to it.                          *)
(***************************************************************************)
ELECTRIC_PARAMS == << "offset", "handle", "live", "cursor", "columns" >>

\* the configurations the process may run with: a base URL that parses (an
\* origin, without a query string of its own) or one that does not, and the
\* optional shared secret
Configs ==
    { [ electric_url |-> "http://electric:3000", electric_secret |-> None ],
      [ electric_url |-> "http://electric:3000", electric_secret |-> "s3cr3t" ],
      [ electric_url |-> "not a url", electric_secret |-> None ] }

\* UrlParses taking every text for a URL
UrlParses_Lenient(electric_url) == TRUE

\* url::Url::parse succeeds on the configured base URL
UrlParses(electric_url) == electric_url = "http://electric:3000"

\* the text of the url::ParseError of a base URL that does not parse: a text
\* without a scheme is a relative URL, and there is no base to resolve it on
UrlParseError(electric_url) ==
    IF UrlParses(electric_url) THEN None ELSE "relative URL without a base"

\* line 52: the message of ProxyError::InvalidConfig
InvalidConfigMessage(electric_url) ==
    "invalid electric_url: " \o UrlParseError(electric_url)

\* lines 56-64: table and where, set server-side
FixedPairs(shape) ==
    << << "table", ShapeTable(shape) >>, << "where", ShapeWhere(shape) >> >>

\* lines 66-71: params[1], params[2], ... for the placeholders
ParamPairs(electric_params) ==
    [ i \in DOMAIN electric_params |->
        << "params[" \o ToString(i) \o "]", electric_params[i] >> ]

\* ForwardedPairs without the allowlist test: every client pair is copied
ForwardedPairs_Unfiltered(client_params, order) ==
    [ i \in DOMAIN order |-> << order[i], client_params[order[i]] >> ]

\* ForwardedPairs with table and where taken for transport-control keys
ForwardedPairs_TableWhere(client_params, order) ==
    SelectSeq([ i \in DOMAIN order |-> << order[i], client_params[order[i]] >> ],
              LAMBDA pair : pair[1] \in Range(ELECTRIC_PARAMS) \cup { "table", "where" })

\* ForwardedPairs with params[1] taken for a transport-control key
ForwardedPairs_Params(client_params, order) ==
    SelectSeq([ i \in DOMAIN order |-> << order[i], client_params[order[i]] >> ],
              LAMBDA pair : pair[1] \in Range(ELECTRIC_PARAMS) \cup { "params[1]" })

\* lines 73-78: the client pairs, in the map's iteration order, allowlisted keys only
ForwardedPairs(client_params, order) ==
    SelectSeq([ i \in DOMAIN order |-> << order[i], client_params[order[i]] >> ],
              LAMBDA pair : pair[1] \in Range(ELECTRIC_PARAMS))

\* lines 80-84: the shared secret, when configured
SecretPairs(cfg) ==
    IF cfg.electric_secret # None
    THEN << << "secret", cfg.electric_secret >> >>
    ELSE << >>

\* lines 50-84: the URL proxy_table requests
OriginUrl(cfg, shape, client_params, order, electric_params) ==
    [ path  |-> "/v1/shape",
      query |-> FixedPairs(shape) \o ParamPairs(electric_params)
                \o ForwardedPairs(client_params, order) \o SecretPairs(cfg) ]

(***************************************************************************)
(* Requests.                                                               *)
(***************************************************************************)
\* the installed routes
Router == ElectricProxyRouter(all_shape_routes)

\* keys a client may put in the free-form part of its query string
ClientKeys == { "offset", "live", "table", "where", "params[1]", "secret" }

\* the value the client sends under each key
ClientValue(key) ==
    CASE key = "offset"    -> "-1"
      [] key = "live"      -> "true"
      [] key = "table"     -> "users"
      [] key = "where"     -> "1=1"
      [] key = "params[1]" -> "0b"
      [] key = "secret"    -> "guess"
      [] OTHER             -> "x"

\* the free-form query maps of at most n keys
ClientParamMaps(n) ==
    { [ k \in K |-> ClientValue(k) ] :
      K \in { S \in SUBSET ClientKeys : Cardinality(S) <= n } }

\* the map without entries
EmptyMap == [ k \in {} |-> "" ]

\* the handler a request is dispatched to
HandlerOf(r) == Router[r.entry].handler

\* the text in the URL's path variable: routes of the Project and Issue
\* scopes have one ({project_id}, {issue_id}), no other route does
PathTexts(h) ==
    IF h.kind = "proxy" /\ h.scope \in { "Project", "Issue" }
    THEN RawUuids ELSE { None }

\* the text under the query key of the handler's scope struct
\* (organization_id, project_id, issue_id), None when the key is absent
ScopeQueryTexts(h) ==
    IF \/ h.kind = "proxy" /\ h.scope \in { "Org", "OrgWithUser" }
       \/ h.kind = "fallback" /\ QueryField(QueryTypeOf(h.handler)) # None
    THEN RawUuids \cup { None } ELSE { None }

\* the rest of the query string; one extra key is enough to show that a
\* fallback handler, which has no field for it, ignores it
FreeParamMaps(h) ==
    IF h.kind = "proxy" THEN ClientParamMaps(MaxClientParams) ELSE ClientParamMaps(1)

\* the text the proxy handler of a scope parses its scope key from:
\* Query<OrgShapeQuery>.organization_id or Path<Uuid>
StreamKeyText(scope, r) ==
    CASE scope \in { "Org", "OrgWithUser" } -> r.scope_q
      [] scope \in { "Project", "Issue" }   -> r.path
      [] OTHER                              -> None

\* the text a fallback handler parses its scope key from: the field of its
\* Query<...FallbackQuery>
FallbackKeyText(handler, r) ==
    IF QueryField(QueryTypeOf(handler)) # None THEN r.scope_q ELSE None

\* does the handler have a scope key to extract
HasScopeKey(h) ==
    IF h.kind = "proxy" THEN h.scope # "User"
    ELSE QueryField(QueryTypeOf(h.handler)) # None

\* the scope key the extractors hand to the handler
ExtractKey(h, r) ==
    IF h.kind = "proxy" THEN UuidParse(StreamKeyText(h.scope, r))
    ELSE UuidParse(FallbackKeyText(h.handler, r))

\* ScopeCheck with the Issue arm calling proxy_table unchecked
ScopeCheck_IssueUnchecked(scope) ==
    CASE scope \in { "Org", "OrgWithUser" } -> "assert_membership"
      [] scope = "Project"                  -> "assert_project_access"
      [] OTHER                              -> None

\* the access check a proxy handler runs
ScopeCheck(scope) ==
    CASE scope \in { "Org", "OrgWithUser" } -> "assert_membership"
      [] scope = "Project"                  -> "assert_project_access"
      [] scope = "Issue"                    -> "assert_issue_access"
      [] OTHER                              -> None

\* the access check of a handler, None when it runs none
CheckOf(h) ==
    IF h.kind = "proxy" THEN ScopeCheck(h.scope) ELSE h.handler.ensure

\* AuthPasses with the result of the check dropped
AuthPasses_Ignored(ok) == TRUE

\* the `?` after the access check: the handler continues only on Ok
AuthPasses(ok) == ok

\* ElectricParams with the two values of OrgWithUser in the other order
ElectricParams_UserFirst(scope, key, user) ==
    CASE scope = "Org"         -> << UuidToString(key) >>
      [] scope = "OrgWithUser" -> << UuidToString(user), UuidToString(key) >>
      [] scope = "Project"     -> << UuidToString(key) >>
      [] scope = "Issue"       -> << UuidToString(key) >>
      [] scope = "User"        -> << UuidToString(user) >>

\* ElectricParams with the OrgWithUser arm binding the organization only
ElectricParams_KeyOnly(scope, key, user) ==
    CASE scope = "Org"         -> << UuidToString(key) >>
      [] scope = "OrgWithUser" -> << UuidToString(key) >>
      [] scope = "Project"     -> << UuidToString(key) >>
      [] scope = "Issue"       -> << UuidToString(key) >>
      [] scope = "User"        -> << UuidToString(user) >>

\* ElectricParams with the Issue arm binding the user's id, not the issue's
ElectricParams_IssueByUser(scope, key, user) ==
    CASE scope = "Org"         -> << UuidToString(key) >>
      [] scope = "OrgWithUser" -> << UuidToString(key), UuidToString(user) >>
      [] scope = "Project"     -> << UuidToString(key) >>
      [] scope = "Issue"       -> << UuidToString(user) >>
      [] scope = "User"        -> << UuidToString(user) >>

\* the electric_params a proxy handler passes to proxy_table
ElectricParams(scope, key, user) ==
    CASE scope = "Org"         -> << UuidToString(key) >>
      [] scope = "OrgWithUser" -> << UuidToString(key), UuidToString(user) >>
      [] scope = "Project"     -> << UuidToString(key) >>
      [] scope = "Issue"       -> << UuidToString(key) >>
      [] scope = "User"        -> << UuidToString(user) >>

\* RepoArgs with the arguments in the opposite order
RepoArgs_Reversed(handler, key, user) ==
    [ i \in DOMAIN handler.args |->
        IF handler.args[Len(handler.args) + 1 - i] = "user_id" THEN user ELSE key ]

\* the arguments a fallback handler passes to its repository call
RepoArgs(handler, key, user) ==
    [ i \in DOMAIN handler.args |->
        IF handler.args[i] = "user_id" THEN user ELSE key ]

\* a response as the client sees it: status, headers, body; field and rows
\* are the JSON envelope of a fallback response, error the error value the
\* handler returned (None for Ok)
Response(status, headers, body, field, rows, error) ==
    [ status |-> status, headers |-> headers, body |-> body,
      field |-> field, rows |-> rows, error |-> error ]

\* ProxyErrorResponse answering a failed connection with 503
ProxyErrorResponse_Unavailable(error) ==
    CASE error = "Connection" ->
            Response(503, << >>, "failed to connect to Electric service", None, {}, error)
      [] error = "InvalidConfig" ->
            Response(500, << >>, "internal server error", None, {}, error)
      [] error = "Authorization" ->
            Response(403, << >>, "forbidden", None, {}, error)

\* ProxyError::into_response
ProxyErrorResponse(error) ==
    CASE error = "Connection" ->
            Response(502, << >>, "failed to connect to Electric service", None, {}, error)
      [] error = "InvalidConfig" ->
            Response(500, << >>, "internal server error", None, {}, error)
      [] error = "Authorization" ->
            Response(403, << >>, "forbidden", None, {}, error)

\* the error response of a failed ensure_ check: forbidden when the user
\* lacks the relationship, an internal error when the check itself failed
EnsureErrorResponse(db_ok) ==
    IF db_ok
    THEN Response(403, << >>, "forbidden", None, {}, "ErrorResponse")
    ELSE Response(500, << >>, "internal server error", None, {}, "ErrorResponse")

\* the rejection of a Query or Path extractor
RejectionResponse == Response(400, << >>, "rejection", None, {}, "Rejection")

(***************************************************************************)
(* electric_proxy.rs: the answer of the upstream origin and the response   *)
(* proxy_table builds from it.  Headers are sequences of (name, value)     *)
(* pairs, in the order the header map yields them.                         *)
(***************************************************************************)
\* http::HeaderName of a header name on the wire: names are matched without
\* regard to case and kept in lower case
HeaderName(text) ==
    CASE text = "Content-Type"     -> "content-type"
      [] text = "Content-Encoding" -> "content-encoding"
      [] text = "Content-Length"   -> "content-length"
      [] text = "Vary"             -> "vary"
      [] text = "Cache-Control"    -> "cache-control"
      [] OTHER                     -> text

\* header::CONTENT_ENCODING, header::CONTENT_LENGTH, header::VARY
CONTENT_ENCODING == "content-encoding"
CONTENT_LENGTH   == "content-length"
VARY             == "vary"

\* what the upstream origin may answer: no connection, or a response with
\* its status, its headers as sent, and its body
UpstreamOutcomes ==
    { [ connected |-> FALSE, status |-> 0, headers |-> << >>, body |-> None ],
      [ connected |-> TRUE, status |-> 200,
        headers |-> << << "Content-Type", "application/json" >>,
                       << "Content-Encoding", "gzip" >>,
                       << "Content-Length", "42" >>,
                       << "Vary", "Accept-Encoding" >>,
                       << "electric-handle", "h1" >> >>,
        body |-> "[{\"key\":\"1\"}]" ],
      [ connected |-> TRUE, status |-> 200,
        headers |-> << << "electric-offset", "0_0" >>,
                       << "Cache-Control", "public" >>,
                       << "Cache-Control", "max-age=5" >> >>,
        body |-> "[]" ],
      [ connected |-> TRUE, status |-> 409,
        headers |-> << << "content-type", "application/json" >>,
                       << "electric-handle", "h2" >> >>,
        body |-> "[{\"headers\":{\"control\":\"must-refetch\"}}]" ] }

\* response.headers(): the pairs of the upstream response, names normalised
ResponseHeaders(response) ==
    [ i \in DOMAIN response.headers |->
        << HeaderName(response.headers[i][1]), response.headers[i][2] >> ]

\* HeaderInsert adding the value next to the values the map already holds
HeaderInsert_Append(headers, key, value) ==
    headers \o << << key, value >> >>

\* HeaderMap::insert: a new name is added at the end; under a name the map
\* holds, the value takes the place of the first value and the map's other
\* values of the name are removed
HeaderInsert(headers, key, value) ==
    LET held == { i \in DOMAIN headers : headers[i][1] = key } IN
    IF held = {}
    THEN Append(headers, << key, value >>)
    ELSE LET first == CHOOSE i \in held : \A j \in held : i <= j IN
         SubSeq(headers, 1, first - 1) \o << << key, value >> >>
           \o SelectSeq(SubSeq(headers, first + 1, Len(headers)),
                        LAMBDA pair : pair[1] # key)

\* lines 96-103: the upstream pairs inserted one by one, Content-Encoding
\* and Content-Length skipped
RECURSIVE CopyHeaders(_, _)
CopyHeaders(headers, from) ==
    IF from = << >> THEN headers
    ELSE LET key   == Head(from)[1]
             value == Head(from)[2]
         IN  CopyHeaders(IF key = CONTENT_ENCODING \/ key = CONTENT_LENGTH
                         THEN headers
                         ELSE HeaderInsert(headers, key, value),
                         Tail(from))

\* response.bytes_stream(): the chunks in which a body may arrive
Chunkings(body) ==
    CASE body = "[{\"key\":\"1\"}]" ->
            { << "[{\"key\":\"1\"}]" >>, << "[{\"key\":", "\"1\"}]" >> }
      [] body = "[{\"headers\":{\"control\":\"must-refetch\"}}]" ->
            { << "[{\"headers\":", "{\"control\":", "\"must-refetch\"}}]" >> }
      [] body = "[]" -> { << "[]" >> }
      [] OTHER       -> { << body >> }

\* RelayResponse answering 200 whatever the upstream status
RelayResponse_OkOnly(response) ==
    Response(200,
             HeaderInsert(CopyHeaders(<< >>, ResponseHeaders(response)), VARY, "Authorization"),
             response.body, None, {}, None)

\* RelayResponse turning an upstream status outside 200..299 into an error
RelayResponse_ErrorOnStatus(response) ==
    IF response.status \in 200..299
    THEN Response(response.status,
                  HeaderInsert(CopyHeaders(<< >>, ResponseHeaders(response)), VARY, "Authorization"),
                  response.body, None, {}, None)
    ELSE Response(502, << >>, "upstream error", None, {}, "Upstream")

\* lines 93-112: the response built from the upstream response
RelayResponse(response) ==
    Response(response.status,
             HeaderInsert(CopyHeaders(<< >>, ResponseHeaders(response)), VARY, "Authorization"),
             response.body, None, {}, None)

(***************************************************************************)
(* The data store as far as the repository list calls read it.  A row has  *)
(* its table, its id, and the columns the list calls of the model's tables *)
(* filter by; the tables other than issues and workspaces hold no rows.    *)
(***************************************************************************)
Row(table, id, project_id, owner_user_id) ==
    [ table |-> table, id |-> id, project_id |-> project_id,
      owner_user_id |-> owner_user_id ]

\* the rows the store may hold
RowUniverse ==
    { Row("issues", 1, 10, NoUuid), Row("issues", 2, 11, NoUuid),
      Row("workspaces", 3, 10, 1), Row("workspaces", 4, 10, 2) }

\* the rows a repository list call returns from the rows the store holds
RepoList(rows, fn, args) ==
    CASE fn = "IssueRepository::list_by_project" ->
            { r \in rows : r.table = "issues" /\ r.project_id = args[1] }
      [] fn = "WorkspaceRepository::list_by_project" ->
            { r \in rows : r.table = "workspaces" /\ r.project_id = args[1] }
      [] fn = "WorkspaceRepository::list_by_owner" ->
            { r \in rows : r.table = "workspaces" /\ r.owner_user_id = args[1] }
      [] OTHER -> {}

NoReq  == [ entry |-> 0, user |-> NoUuid, path |-> None, scope_q |-> None,
            params |-> EmptyMap ]
NoLocals == [ key |-> NoUuid, params |-> EmptyMap ]
NoResp == Response(0, << >>, None, None, {}, None)
NoCand == [ scope |-> None, handler |-> None, status |-> "none" ]
NoPrev == [ set |-> FALSE, stale |-> FALSE, rows |-> {}, params |-> EmptyMap ]
NoRelay == [ state |-> "none", client |-> "none", upstream |-> "none",
             status |-> 0, all |-> << >>, pending |-> << >>, sent |-> << >>,
             read |-> 0 ]
NoTask == [ req |-> NoReq, locals |-> NoLocals, pc |-> "idle", trace |-> << >>,
            resp |-> NoResp ]
NoResult == [ is_error |-> FALSE, error |-> None, workspace_id |-> None,
              issue_id |-> None ]
NoInput == [ repos |-> << >>, executor |-> None, prompt_override |-> None,
             issue_id |-> NoUuid, workspace_id |-> NoUuid ]
NoCall == [ tool |-> None, pc |-> "idle", input |-> NoInput, prompt |-> None,
            calls |-> << >>, created |-> FALSE, result |-> NoResult ]

(***************************************************************************)
(* State.                                                                  *)
(***************************************************************************)
VARIABLES
    config,     \* state.config: electric_url, electric_secret
    members,    \* organization_member_metadata: the set of (user, organization)
    req,        \* the request in flight
    locals,     \* what the extractors handed to its handler
    pc,         \* where its handler is: idle, auth, data, done
    trace,      \* the calls its handler has made so far
    resp,       \* its response
    cand,       \* a call of ShapeRoute::new under type checking
    store,      \* the rows of the data store
    prev,       \* the rows of the answer to the same request, sent before
    relay,      \* the body stream of its response, once it is being sent
    bg,         \* the request of the task that is not running
    mcp         \* the tool call of the MCP task server

vars == << config, members, req, locals, pc, trace, resp, cand, store, prev,
          relay, bg, mcp >>

Init ==
    /\ config \in Configs
    /\ members \in SUBSET MemberPairs
    /\ req = NoReq
    /\ locals = NoLocals
    /\ pc = "idle"
    /\ trace = << >>
    /\ resp = NoResp
    /\ cand = NoCand
    /\ store = RowUniverse
    /\ prev = NoPrev
    /\ relay = NoRelay
    /\ bg = NoTask
    /\ mcp = NoCall

(***************************************************************************)
(* A request arrives and axum runs the handler's extractors.               *)
(***************************************************************************)
ReceiveFrom(entries, maps) ==
    /\ pc = "idle"
    /\ \E entry \in entries, user \in Users :
         LET h == Router[entry].handler IN
         \E path \in PathTexts(h), scope_q \in ScopeQueryTexts(h),
            params \in FreeParamMaps(h) \cap maps :
           LET r   == [ entry |-> entry, user |-> user, path |-> path,
                        scope_q |-> scope_q, params |-> params ]
               key == ExtractKey(h, r)
           IN  /\ req' = r
               /\ IF HasScopeKey(h) /\ key = NoUuid
                  THEN /\ locals' = NoLocals
                       /\ resp' = RejectionResponse
                       /\ pc' = "done"
                  ELSE /\ locals' = [ key |-> key, params |-> params ]
                       /\ resp' = NoResp
                       /\ pc' = IF CheckOf(h) # None THEN "auth" ELSE "data"
    /\ trace' = << >>
    /\ UNCHANGED << config, members, cand, store, prev, relay, bg, mcp >>

\* a request to any route, with any free-form query
Receive == ReceiveFrom(DOMAIN Router, ClientParamMaps(MaxClientParams))

(***************************************************************************)
(* Authorize with the proxy handler telling a failed check apart from a    *)
(* refusal, as the fallback handlers do.                                   *)
(***************************************************************************)
Authorize_ByErrorKind ==
    /\ pc = "auth"
    /\ LET h == HandlerOf(req) IN
       \E db_ok \in BOOLEAN :
         LET ok == db_ok /\ HasAccess(members, CheckOf(h), locals.key, req.user) IN
         /\ trace' = Append(trace, [ ev |-> "auth", check |-> CheckOf(h),
                                     key |-> locals.key, user |-> req.user,
                                     db_ok |-> db_ok, ok |-> ok ])
         /\ IF AuthPasses(ok)
            THEN /\ pc' = "data"
                 /\ resp' = resp
            ELSE /\ pc' = "done"
                 /\ resp' = IF h.kind = "proxy" /\ db_ok
                            THEN ProxyErrorResponse("Authorization")
                            ELSE EnsureErrorResponse(db_ok)
    /\ UNCHANGED << config, members, req, locals, cand, store, prev, relay, bg, mcp >>

(***************************************************************************)
(* The access check of the handler, against the members of this moment.    *)
(***************************************************************************)
Authorize ==
    /\ pc = "auth"
    /\ LET h == HandlerOf(req) IN
       \E db_ok \in BOOLEAN :
         LET ok == db_ok /\ HasAccess(members, CheckOf(h), locals.key, req.user) IN
         /\ trace' = Append(trace, [ ev |-> "auth", check |-> CheckOf(h),
                                     key |-> locals.key, user |-> req.user,
                                     db_ok |-> db_ok, ok |-> ok ])
         /\ IF AuthPasses(ok)
            THEN /\ pc' = "data"
                 /\ resp' = resp
            ELSE /\ pc' = "done"
                 /\ resp' = IF h.kind = "proxy"
                            THEN ProxyErrorResponse("Authorization")
                            ELSE EnsureErrorResponse(db_ok)
    /\ UNCHANGED << config, members, req, locals, cand, store, prev, relay, bg, mcp >>

(***************************************************************************)
(* ProxyTable with the client's parameters kept in a place all requests    *)
(* share, where the request received last has put its own.                 *)
(***************************************************************************)
ProxyTable_Shared ==
    /\ pc = "data"
    /\ HandlerOf(req).kind = "proxy"
    /\ LET h == HandlerOf(req)
           shared == IF bg.pc = "idle" THEN locals ELSE bg.locals
       IN
       IF ~UrlParses(config.electric_url)
       THEN /\ resp' = ProxyErrorResponse("InvalidConfig")
            /\ trace' = trace
       ELSE \E order \in Orderings(DOMAIN shared.params), outcome \in UpstreamOutcomes :
              /\ trace' = Append(trace,
                     [ ev  |-> "upstream",
                       url |-> OriginUrl(config, h.shape, shared.params, order,
                                         ElectricParams(h.scope, locals.key, req.user)),
                       response |-> outcome ])
              /\ resp' = IF ~outcome.connected
                         THEN ProxyErrorResponse("Connection")
                         ELSE RelayResponse(outcome)
    /\ pc' = "done"
    /\ UNCHANGED << config, members, req, locals, cand, store, prev, relay, bg, mcp >>

(***************************************************************************)
(* proxy_table: build the URL, request it once, pass the answer on.        *)
(***************************************************************************)
ProxyTable ==
    /\ pc = "data"
    /\ HandlerOf(req).kind = "proxy"
    /\ LET h == HandlerOf(req) IN
       IF ~UrlParses(config.electric_url)
       THEN /\ resp' = ProxyErrorResponse("InvalidConfig")
            /\ trace' = trace
       ELSE \E order \in Orderings(DOMAIN locals.params), outcome \in UpstreamOutcomes :
              /\ trace' = Append(trace,
                     [ ev  |-> "upstream",
                       url |-> OriginUrl(config, h.shape, locals.params, order,
                                         ElectricParams(h.scope, locals.key, req.user)),
                       response |-> outcome ])
              /\ resp' = IF ~outcome.connected
                         THEN ProxyErrorResponse("Connection")
                         ELSE RelayResponse(outcome)
    /\ pc' = "done"
    /\ UNCHANGED << config, members, req, locals, cand, store, prev, relay, bg, mcp >>

\* the answers of the data store to a list query: the rows, or an error
\* with its text
StoreAnswers ==
    { [ ok |-> TRUE, error |-> None ],
      [ ok |-> FALSE, error |-> "pool timed out while waiting for an open connection" ],
      [ ok |-> FALSE, error |-> "error returned from database: relation does not exist" ] }

(***************************************************************************)
(* FallbackList honouring the transport-control parameter live, as the     *)
(* stream route does: asked with live, it answers with what changed since  *)
(* the client's offset, which is nothing, and not with the rows.           *)
(***************************************************************************)
FallbackList_Live ==
    /\ pc = "data"
    /\ HandlerOf(req).kind = "fallback"
    /\ LET handler == HandlerOf(req).handler
           rows    == IF "live" \in DOMAIN req.params THEN {}
                      ELSE RepoList(store, handler.repo,
                                    RepoArgs(handler, locals.key, req.user))
       IN
       \E answer \in StoreAnswers :
         /\ trace' = Append(trace, [ ev |-> "repo", fn |-> handler.repo,
                                     args |-> RepoArgs(handler, locals.key, req.user),
                                     error |-> answer.error ])
         /\ resp' = IF answer.ok
                    THEN Response(200, << >>, "rows", handler.field, rows, None)
                    ELSE Response(500, << >>, handler.message, None, {}, "ErrorResponse")
    /\ pc' = "done"
    /\ UNCHANGED << config, members, req, locals, cand, store, prev, relay, bg, mcp >>

(***************************************************************************)
(* FallbackList answering a failed list call with the text of the error.   *)
(***************************************************************************)
FallbackList_Verbose ==
    /\ pc = "data"
    /\ HandlerOf(req).kind = "fallback"
    /\ LET handler == HandlerOf(req).handler IN
       \E answer \in StoreAnswers :
         /\ trace' = Append(trace, [ ev |-> "repo", fn |-> handler.repo,
                                     args |-> RepoArgs(handler, locals.key, req.user),
                                     error |-> answer.error ])
         /\ resp' = IF answer.ok
                    THEN Response(200, << >>, "rows", handler.field,
                                  RepoList(store, handler.repo,
                                           RepoArgs(handler, locals.key, req.user)),
                                  None)
                    ELSE Response(500, << >>, answer.error, None, {}, "ErrorResponse")
    /\ pc' = "done"
    /\ UNCHANGED << config, members, req, locals, cand, store, prev, relay, bg, mcp >>

(***************************************************************************)
(* A fallback handler's repository list call and its JSON response; the    *)
(* error of a failed call is logged, with the scope key, and replaced by   *)
(* the handler's message.                                                  *)
(***************************************************************************)
FallbackList ==
    /\ pc = "data"
    /\ HandlerOf(req).kind = "fallback"
    /\ LET handler == HandlerOf(req).handler IN
       \E answer \in StoreAnswers :
         /\ trace' = Append(trace, [ ev |-> "repo", fn |-> handler.repo,
                                     args |-> RepoArgs(handler, locals.key, req.user),
                                     error |-> answer.error ])
         /\ resp' = IF answer.ok
                    THEN Response(200, << >>, "rows", handler.field,
                                  RepoList(store, handler.repo,
                                           RepoArgs(handler, locals.key, req.user)),
                                  None)
                    ELSE Response(500, << >>, handler.message, None, {}, "ErrorResponse")
    /\ pc' = "done"
    /\ UNCHANGED << config, members, req, locals, cand, store, prev, relay, bg, mcp >>

\* the response is sent and the request's task ends
Complete ==
    /\ pc \in { "done", "sent" }
    /\ pc' = "idle"
    /\ req' = NoReq
    /\ locals' = NoLocals
    /\ trace' = << >>
    /\ resp' = NoResp
    /\ prev' = NoPrev
    /\ relay' = NoRelay
    /\ UNCHANGED << config, members, cand, store, bg, mcp >>

(***************************************************************************)
(* A fallback handler's repository list call on a connection that stalls:  *)
(* the handler awaits the call and nothing else, so it stays suspended     *)
(* there for as long as the data store does not answer.                    *)
(***************************************************************************)
StoreStalls ==
    /\ pc = "data"
    /\ HandlerOf(req).kind = "fallback"
    /\ LET handler == HandlerOf(req).handler IN
         trace' = Append(trace, [ ev |-> "repo", fn |-> handler.repo,
                                  args |-> RepoArgs(handler, locals.key, req.user),
                                  error |-> None ])
    /\ pc' = "stalled"
    /\ UNCHANGED << config, members, req, locals, resp, cand, store, prev, relay, bg, mcp >>

(***************************************************************************)
(* The body of a response built by proxy_table is the upstream byte        *)
(* stream: the server sends status and headers and then polls the stream,  *)
(* which reads one chunk from upstream per poll.  The stream and the       *)
(* upstream response it owns live inside the body and nowhere else.        *)
(***************************************************************************)
\* status and headers are sent; the body is about to be polled
StartRelay ==
    /\ pc = "done"
    /\ HandlerOf(req).kind = "proxy"
    /\ resp.error = None
    /\ \E chunks \in Chunkings(resp.body) :
          relay' = [ state |-> "streaming", client |-> "connected", upstream |-> "open",
                     status |-> resp.status, all |-> chunks, pending |-> chunks,
                     sent |-> << >>, read |-> 0 ]
    /\ pc' = "relay"
    /\ UNCHANGED << config, members, req, locals, trace, resp, cand, store, prev, bg, mcp >>

\* RelayChunk putting the chunk it read in front of those already sent
RelayChunk_Reordered ==
    /\ pc = "relay"
    /\ relay.state = "streaming"
    /\ relay.pending # << >>
    /\ relay' = [ relay EXCEPT !.pending = Tail(relay.pending),
                                !.sent = << Head(relay.pending) >> \o relay.sent,
                                !.read = @ + 1 ]
    /\ UNCHANGED << config, members, req, locals, pc, trace, resp, cand, store, prev, bg, mcp >>

\* a poll of the body: the next chunk is read from upstream and sent as it is
RelayChunk ==
    /\ pc = "relay"
    /\ relay.state = "streaming"
    /\ relay.pending # << >>
    /\ relay' = [ relay EXCEPT !.pending = Tail(relay.pending),
                                !.sent = Append(relay.sent, Head(relay.pending)),
                                !.read = @ + 1 ]
    /\ UNCHANGED << config, members, req, locals, pc, trace, resp, cand, store, prev, bg, mcp >>

\* a poll of the body at the end of the upstream stream
RelayEnd ==
    /\ pc = "relay"
    /\ relay.state = "streaming"
    /\ relay.pending = << >>
    /\ relay' = [ relay EXCEPT !.state = "ended", !.upstream = "closed" ]
    /\ pc' = "sent"
    /\ UNCHANGED << config, members, req, locals, trace, resp, cand, store, prev, bg, mcp >>

\* a poll of the body yields the error of the upstream stream, made an
\* io::Error: the body ends there, with what was sent; the error may come
\* at any poll, also after the last chunk and before the end of the stream
UpstreamFails ==
    /\ pc = "relay"
    /\ relay.state = "streaming"
    /\ relay' = [ relay EXCEPT !.state = "failed", !.upstream = "closed" ]
    /\ pc' = "sent"
    /\ UNCHANGED << config, members, req, locals, trace, resp, cand, store, prev, bg, mcp >>

\* the client goes away; the server, which learns of it only from its
\* connection, goes on polling the body until it does
ClientDisconnects ==
    /\ pc = "relay"
    /\ relay.state = "streaming"
    /\ relay.client = "connected"
    /\ relay' = [ relay EXCEPT !.client = "gone" ]
    /\ UNCHANGED << config, members, req, locals, pc, trace, resp, cand, store, prev, bg, mcp >>

\* ServerDropsBody with the stream moved into a task of its own, which the
\* end of the response does not stop
ServerDropsBody_Detached ==
    /\ pc = "relay"
    /\ relay.state = "streaming"
    /\ relay.client = "gone"
    /\ relay' = [ relay EXCEPT !.client = "closed" ]
    /\ UNCHANGED << config, members, req, locals, pc, trace, resp, cand, store, prev, bg, mcp >>

\* the server finds the client's connection closed and drops the response:
\* the body is the only owner of the stream, so the stream goes with it and
\* nothing polls it again
ServerDropsBody ==
    /\ pc = "relay"
    /\ relay.state = "streaming"
    /\ relay.client = "gone"
    /\ relay' = [ relay EXCEPT !.client = "closed", !.state = "dropped" ]
    /\ UNCHANGED << config, members, req, locals, pc, trace, resp, cand, store, prev, bg, mcp >>

\* the upstream response of a dropped stream: its connection makes one
\* attempt to read the rest of the body, which yields a chunk or nothing;
\* it is kept for reuse if that reached the end of the body and closed
\* otherwise, and it may be closed in either case
DrainOrClose ==
    /\ pc = "relay"
    /\ relay.state = "dropped"
    /\ relay.upstream = "open"
    /\ \E n \in { 0, 1 } :
         /\ relay.read + n <= Len(relay.all)
         /\ \E end \in IF relay.read + n = Len(relay.all)
                        THEN { "closed", "released" } ELSE { "closed" } :
              relay' = [ relay EXCEPT !.read = @ + n, !.upstream = end ]
    /\ pc' = "sent"
    /\ UNCHANGED << config, members, req, locals, trace, resp, cand, store, prev, bg, mcp >>

\* another client of the data store adds a member
Grant ==
    /\ \E pair \in MemberPairs \ members : members' = members \cup { pair }
    /\ UNCHANGED << config, req, locals, pc, trace, resp, cand, store, prev, relay, bg, mcp >>

\* another client of the data store removes a member
Revoke ==
    /\ \E pair \in members : members' = members \ { pair }
    /\ UNCHANGED << config, req, locals, pc, trace, resp, cand, store, prev, relay, bg, mcp >>

(***************************************************************************)
(* The client calls the fallback route it was just answered by again: the  *)
(* same user and the same scope key, with any free-form query string, and  *)
(* axum runs the extractors on the new request.  The rows of its last      *)
(* answer that had rows are kept to compare, with the query string they    *)
(* were asked with, unless the store was written to since that answer.     *)
(***************************************************************************)
Repeat ==
    /\ pc = "done"
    /\ HandlerOf(req).kind = "fallback"
    /\ prev' = IF prev.stale THEN NoPrev
               ELSE IF resp.status = 200
               THEN [ set |-> TRUE, stale |-> FALSE, rows |-> resp.rows,
                      params |-> req.params ]
               ELSE prev
    /\ LET h == HandlerOf(req) IN
       \E params \in FreeParamMaps(h) :
         LET r   == [ req EXCEPT !.params = params ]
             key == ExtractKey(h, r)
         IN  /\ req' = r
             /\ IF HasScopeKey(h) /\ key = NoUuid
                THEN /\ locals' = NoLocals
                     /\ resp' = RejectionResponse
                     /\ pc' = "done"
                ELSE /\ locals' = [ key |-> key, params |-> params ]
                     /\ resp' = NoResp
                     /\ pc' = IF CheckOf(h) # None THEN "auth" ELSE "data"
    /\ trace' = << >>
    /\ UNCHANGED << config, members, cand, store, relay, bg, mcp >>

\* another client of the data store inserts a row
Insert ==
    /\ \E row \in RowUniverse \ store : store' = store \cup { row }
    /\ prev' = [ NoPrev EXCEPT !.stale = pc = "done" ]
    /\ UNCHANGED << config, members, req, locals, pc, trace, resp, cand, relay, bg, mcp >>

\* another client of the data store deletes a row
Delete ==
    /\ \E row \in store : store' = store \ { row }
    /\ prev' = [ NoPrev EXCEPT !.stale = pc = "done" ]
    /\ UNCHANGED << config, members, req, locals, pc, trace, resp, cand, relay, bg, mcp >>

Next ==
    \/ Receive
    \/ Authorize
    \/ ProxyTable
    \/ FallbackList
    \/ Complete
    \/ Grant
    \/ Revoke

Spec == Init /\ [][Next]_vars

(***************************************************************************)
(* The routes over a store that other clients write to: every user is a    *)
(* member of every organization, the rows come and go, and a client may    *)
(* repeat a fallback request.                                              *)
(***************************************************************************)
InitStore ==
    /\ config = [ electric_url |-> "http://electric:3000", electric_secret |-> None ]
    /\ members = MemberPairs
    /\ req = NoReq
    /\ locals = NoLocals
    /\ pc = "idle"
    /\ trace = << >>
    /\ resp = NoResp
    /\ cand = NoCand
    /\ store \in SUBSET RowUniverse
    /\ prev = NoPrev
    /\ relay = NoRelay
    /\ bg = NoTask
    /\ mcp = NoCall

NextStore ==
    \/ Receive
    \/ Authorize
    \/ ProxyTable
    \/ FallbackList
    \/ Complete
    \/ Repeat
    \/ Insert
    \/ Delete

SpecStore == InitStore /\ [][NextStore]_vars

(***************************************************************************)
(* The routes with the body of a stream response sent chunk by chunk.      *)
(***************************************************************************)
InitRelay ==
    /\ config = [ electric_url |-> "http://electric:3000", electric_secret |-> None ]
    /\ members = MemberPairs
    /\ req = NoReq
    /\ locals = NoLocals
    /\ pc = "idle"
    /\ trace = << >>
    /\ resp = NoResp
    /\ cand = NoCand
    /\ store = RowUniverse
    /\ prev = NoPrev
    /\ relay = NoRelay
    /\ bg = NoTask
    /\ mcp = NoCall

NextRelay ==
    \/ Receive
    \/ Authorize
    \/ ProxyTable
    \/ FallbackList
    \/ Complete
    \/ StartRelay
    \/ RelayChunk
    \/ RelayEnd
    \/ UpstreamFails
    \/ ClientDisconnects
    \/ ServerDropsBody
    \/ DrainOrClose

SpecRelay == InitRelay /\ [][NextRelay]_vars

(***************************************************************************)
(* The routes with a data store that may stall, each request run by a task *)
(* of the async runtime: a task that can take a step is polled, so a step  *)
(* of a handler that stays possible is taken.                              *)
(***************************************************************************)
NextLive ==
    \/ Receive
    \/ Authorize
    \/ ProxyTable
    \/ FallbackList
    \/ StoreStalls
    \/ Complete

SpecLive ==
    /\ InitRelay
    /\ [][NextLive]_vars
    /\ WF_vars(Authorize)
    /\ WF_vars(ProxyTable)
    /\ WF_vars(FallbackList)
    /\ WF_vars(Complete)

(***************************************************************************)
(* mcp/src/task_server: the tool start_workspace_session.  A tool call is  *)
(* the input of the call, the handler's position, the issue and the prompt *)
(* it holds, the requests it has sent to the VK API with their outcomes,   *)
(* whether the API has created the workspace, and the result returned.     *)
(***************************************************************************)
\* str::trim on the texts of the inputs
Trim(text) ==
    CASE text = "  "      -> ""
      [] text = " amp "   -> "amp"
      [] text = " Do it " -> "Do it"
      [] OTHER            -> text

\* executor_trimmed.replace('-', "_").to_ascii_uppercase()
NormalizeExecutor(text) ==
    CASE text = "claude-code" -> "CLAUDE_CODE"
      [] text = "amp"         -> "AMP"
      [] text = "vim"         -> "VIM"
      [] OTHER                -> text

\* the executors BaseCodingAgent::from_str knows
BaseCodingAgents ==
    { "CLAUDE_CODE", "AMP", "GEMINI", "CODEX", "OPENCODE", "CURSOR_AGENT",
      "QWEN_CODE", "COPILOT", "DROID" }

\* an optional text, trimmed: None when absent or empty
TrimmedOption(text) ==
    IF text = None \/ Trim(text) = "" THEN None ELSE Trim(text)

\* build_workspace_prompt_from_issue
build_workspace_prompt_from_issue(issue) ==
    LET title       == Trim(issue.title)
        description == IF issue.description = None THEN "" ELSE Trim(issue.description)
    IN  IF title = "" /\ description = "" THEN None
        ELSE IF description = "" THEN title
        ELSE IF title = "" THEN description
        ELSE Concat(<< title, "\n\n", description >>)

\* the inputs of a call
McpRepos     == { << >>, << [ repo_id |-> 1, base_branch |-> "main" ] >> }
McpExecutors == { "claude-code", " amp ", "  ", "vim" }
McpPrompts   == { None, "  ", " Do it " }
McpIssueIds  == { NoUuid, 11 }

\* the issues the API may return for the issue id
McpIssues ==
    { [ title |-> "Fix login", description |-> "Steps" ],
      [ title |-> "Fix login", description |-> None ],
      [ title |-> "  ", description |-> "  " ] }

\* how rb.send().await may fail, in send_json and in send_empty_json
SendFailures == { "connect", "status" }

\* how a request to the VK API may end in send_json
SendJsonOutcomes == { "ok", "connect", "status", "parse", "unsuccessful", "nodata" }

\* how a request to the VK API may end in send_empty_json
SendEmptyJsonOutcomes == { "ok", "connect", "status", "parse", "unsuccessful" }

\* the workspace id the API gives the workspace it creates
NewWorkspaceId == 10

\* TaskServer::err, without the details, and TaskServer::success of a
\* StartWorkspaceSessionResponse and of a McpLinkWorkspaceResponse
McpErr(msg) ==
    [ is_error |-> TRUE, error |-> msg, workspace_id |-> None, issue_id |-> None ]
McpSuccess(workspace) ==
    [ is_error |-> FALSE, error |-> None, workspace_id |-> UuidToString(workspace),
      issue_id |-> None ]
McpLinked(workspace, issue) ==
    [ is_error |-> FALSE, error |-> None, workspace_id |-> UuidToString(workspace),
      issue_id |-> UuidToString(issue) ]

\* the result of a call whose last request succeeded
Linked(call) ==
    IF call.tool = "link_workspace"
    THEN McpLinked(call.input.workspace_id, call.input.issue_id)
    ELSE McpSuccess(NewWorkspaceId)

\* the error result of send_json and send_empty_json for a failed request;
\* the status of a refused request is 500, printed with its reason
SendError(outcome) ==
    CASE outcome = "connect"      -> McpErr("Failed to connect to VK API")
      [] outcome = "status"       -> McpErr("VK API returned error status: 500 Internal Server Error")
      [] outcome = "parse"        -> McpErr("Failed to parse VK API response")
      [] outcome = "unsuccessful" -> McpErr("VK API returned error")
      [] OTHER                    -> McpErr("VK API response missing data field")

\* a request sent to the VK API, with how it ended; "pending" while the
\* status was received as a success and the body is not read yet
ApiCall(kind, outcome) == [ kind |-> kind, outcome |-> outcome ]

\* the handler is at the second await of send_json or send_empty_json,
\* resp.json().await
BodyPending(call) ==
    call.calls # << >> /\ call.calls[Len(call.calls)].outcome = "pending"

\* what the await the handler is at may give: rb.send().await fails to
\* connect, gets an error status or gets a success status; resp.json().await
\* gives the rest of the outcomes
AwaitOutcomes(call, outcomes) ==
    IF BodyPending(call)
    THEN outcomes \ SendFailures
    ELSE SendFailures \cup { "pending" }

\* the request is recorded when it is sent, and its outcome when it is known
Recorded(call, kind, outcome) ==
    IF BodyPending(call)
    THEN [ call EXCEPT !.calls[Len(call.calls)] = ApiCall(kind, outcome) ]
    ELSE [ call EXCEPT !.calls = Append(@, ApiCall(kind, outcome)) ]

\* everything but the tool call
web == << config, members, req, locals, pc, trace, resp, cand, store, prev, relay, bg >>

\* lines 173-181: the prompt is the override or the issue's; without one
\* the call ends (the message is the code's without its backquotes)
WithPrompt(call, prompt) ==
    IF prompt = None
    THEN [ call EXCEPT !.pc = "done",
             !.result = McpErr("Provide prompt_override, or issue_id that has a non-empty title/description.") ]
    ELSE [ call EXCEPT !.pc = "create", !.prompt = prompt ]

\* lines 109-153 and, without issue_id, to 181: the checks of the input
StartWorkspaceSession ==
    /\ mcp.pc = "idle"
    /\ \E repos \in McpRepos, executor \in McpExecutors,
          prompt_override \in McpPrompts, issue_id \in McpIssueIds :
         LET input == [ repos |-> repos, executor |-> executor,
                        prompt_override |-> prompt_override, issue_id |-> issue_id,
                        workspace_id |-> NoUuid ]
             call  == [ NoCall EXCEPT !.tool = "start_workspace_session",
                                      !.input = input ]
         IN  mcp' =
               IF repos = << >>
               THEN [ call EXCEPT !.pc = "done",
                        !.result = McpErr("At least one repository must be specified.") ]
               ELSE IF Trim(executor) = ""
               THEN [ call EXCEPT !.pc = "done",
                        !.result = McpErr("Executor must not be empty.") ]
               ELSE IF NormalizeExecutor(Trim(executor)) \notin BaseCodingAgents
               THEN [ call EXCEPT !.pc = "done",
                        !.result = McpErr(Concat(<< "Unknown executor '", Trim(executor), "'." >>)) ]
               ELSE IF issue_id # NoUuid
               THEN [ call EXCEPT !.pc = "issue" ]
               ELSE WithPrompt(call, TrimmedOption(prompt_override))
    /\ UNCHANGED web

\* lines 155-181: the issue is fetched for its prompt; like every request
\* it takes a step to the status and, after a success status, one to the body
FetchIssue ==
    /\ mcp.pc = "issue"
    /\ \E outcome \in AwaitOutcomes(mcp, SendJsonOutcomes), issue \in McpIssues :
         LET call == Recorded(mcp, "get_issue", outcome) IN
         mcp' =
           IF outcome = "pending" THEN call
           ELSE IF outcome # "ok"
           THEN [ call EXCEPT !.pc = "done", !.result = SendError(outcome) ]
           ELSE WithPrompt(call,
                  IF TrimmedOption(mcp.input.prompt_override) # None
                  THEN TrimmedOption(mcp.input.prompt_override)
                  ELSE build_workspace_prompt_from_issue(issue))
    /\ UNCHANGED web

\* lines 183-209, and to 224 without issue_id: the create-and-start request
CreateAndStart ==
    /\ mcp.pc = "create"
    /\ \E outcome \in AwaitOutcomes(mcp, SendJsonOutcomes) :
         LET call == Recorded(mcp, "create_and_start", outcome) IN
         mcp' =
           IF outcome = "pending" THEN call
           ELSE IF outcome # "ok"
           THEN [ call EXCEPT !.pc = "done", !.result = SendError(outcome) ]
           ELSE IF mcp.input.issue_id # NoUuid
           THEN [ call EXCEPT !.pc = "link_issue", !.created = TRUE ]
           ELSE [ call EXCEPT !.pc = "done", !.created = TRUE,
                              !.result = McpSuccess(NewWorkspaceId) ]
    /\ UNCHANGED web

\* link_workspace_to_issue, first request: the issue is fetched again
LinkFetchIssue ==
    /\ mcp.pc = "link_issue"
    /\ \E outcome \in AwaitOutcomes(mcp, SendJsonOutcomes) :
         LET call == Recorded(mcp, "get_issue", outcome) IN
         mcp' =
           IF outcome = "pending" THEN call
           ELSE IF outcome # "ok"
           THEN [ call EXCEPT !.pc = "done", !.result = SendError(outcome) ]
           ELSE [ call EXCEPT !.pc = "link" ]
    /\ UNCHANGED web

\* LinkWorkspace with the outcome of the link request not looked at
LinkWorkspace_Ignored ==
    /\ mcp.pc = "link"
    /\ \E outcome \in AwaitOutcomes(mcp, SendEmptyJsonOutcomes) :
         LET call == Recorded(mcp, "link", outcome) IN
         mcp' =
           IF outcome = "pending" THEN call
           ELSE [ call EXCEPT !.pc = "done", !.result = Linked(mcp) ]
    /\ UNCHANGED web

\* link_workspace_to_issue, second request, and lines 211-224: the link
\* request and the result of the call
LinkWorkspace ==
    /\ mcp.pc = "link"
    /\ \E outcome \in AwaitOutcomes(mcp, SendEmptyJsonOutcomes) :
         LET call == Recorded(mcp, "link", outcome) IN
         mcp' =
           IF outcome = "pending" THEN call
           ELSE IF outcome # "ok"
           THEN [ call EXCEPT !.pc = "done", !.result = SendError(outcome) ]
           ELSE [ call EXCEPT !.pc = "done", !.result = Linked(mcp) ]
    /\ UNCHANGED web

\* the tool link_workspace: an existing workspace is linked to an issue
link_workspace ==
    /\ mcp.pc = "idle"
    /\ \E workspace_id \in { NewWorkspaceId }, issue_id \in McpIssueIds \ { NoUuid } :
         mcp' = [ NoCall EXCEPT !.tool = "link_workspace", !.pc = "link_issue",
                    !.input = [ NoInput EXCEPT !.workspace_id = workspace_id,
                                               !.issue_id = issue_id ] ]
    /\ UNCHANGED web

\* the result is returned, and the server takes the next call
ReturnResult ==
    /\ mcp.pc = "done"
    /\ mcp' = NoCall
    /\ UNCHANGED web

NextMcp ==
    \/ StartWorkspaceSession
    \/ link_workspace
    \/ FetchIssue
    \/ CreateAndStart
    \/ LinkFetchIssue
    \/ LinkWorkspace
    \/ ReturnResult

SpecMcp == InitRelay /\ [][NextMcp]_vars

(***************************************************************************)
(* Two requests in progress at once.  Each is a task of the async runtime  *)
(* with its own extractor values and locals; the runtime runs one task at  *)
(* a time and may pass from one to the other wherever a handler awaits.    *)
(* The task that runs is in req, locals, pc, trace and resp, the other one *)
(* in bg.                                                                  *)
(***************************************************************************)
Task == [ req |-> req, locals |-> locals, pc |-> pc, trace |-> trace, resp |-> resp ]

\* the runtime passes from the running task to the other one
Switch ==
    /\ bg # Task
    /\ bg' = Task
    /\ req' = bg.req
    /\ locals' = bg.locals
    /\ pc' = bg.pc
    /\ trace' = bg.trace
    /\ resp' = bg.resp
    /\ UNCHANGED << config, members, cand, store, prev, relay, mcp >>

\* the routes of the project_workspaces shape: its stream and its fallback
PairEntries ==
    { entry \in DOMAIN Router :
        ShapeTable(all_shape_routes[(entry + 1) \div 2].shape) = "workspaces"
        /\ all_shape_routes[(entry + 1) \div 2].router[1].handler.scope = "Project" }

\* the free-form queries of the two requests
PairMaps == { EmptyMap, [ k \in { "offset", "where" } |-> ClientValue(k) ] }

NextPair ==
    \/ ReceiveFrom(PairEntries, PairMaps)
    \/ Authorize
    \/ ProxyTable
    \/ FallbackList
    \/ Complete
    \/ Switch

SpecPair == InitRelay /\ [][NextPair]_vars

(***************************************************************************)
(* ShapeRoute::new as a function of its scope and fallback handler: each   *)
(* call is type checked against the bounds of its where clause.            *)
(***************************************************************************)
\* a handler whose arguments have no Query extractor
handler_without_query ==
    [ name       |-> "handler_without_query",
      extractors |-> << Ex("State", ""), Ex("Extension", "") >>,
      ensure |-> None, repo |-> None, args |-> << >>, field |-> None, message |-> None ]

\* a handler that takes its scope key from the URL path
handler_with_path ==
    [ name       |-> "handler_with_path",
      extractors |-> << Ex("State", ""), Ex("Extension", ""), Ex("Path", "Uuid") >>,
      ensure |-> None, repo |-> None, args |-> << >>, field |-> None, message |-> None ]

\* the handlers a call of ShapeRoute::new is tried with
CandidateHandlers ==
    { Router[e].handler.handler : e \in { n \in DOMAIN Router : Router[n].handler.kind = "fallback" } }
    \cup { handler_without_query, handler_with_path }

HandlerNamed(name) == CHOOSE h \in CandidateHandlers : h.name = name

InitNew ==
    /\ config = [ electric_url |-> "http://electric:3000", electric_secret |-> None ]
    /\ members = {}
    /\ req = NoReq
    /\ locals = NoLocals
    /\ pc = "idle"
    /\ trace = << >>
    /\ resp = NoResp
    /\ store = RowUniverse
    /\ prev = NoPrev
    /\ relay = NoRelay
    /\ bg = NoTask
    /\ mcp = NoCall
    /\ \E scope \in ShapeScope, h \in CandidateHandlers :
          cand = [ scope |-> scope, handler |-> h.name, status |-> "pending" ]

\* the compiler accepts or rejects the call
TryShapeRouteNew ==
    /\ cand.status = "pending"
    /\ cand' = [ cand EXCEPT !.status =
                    IF ShapeRouteNewCompiles(cand.scope, HandlerNamed(cand.handler))
                    THEN "compiled" ELSE "rejected" ]
    /\ UNCHANGED << config, members, req, locals, pc, trace, resp, store, prev, relay, bg, mcp >>

NextNew == TryShapeRouteNew

SpecNew == InitNew /\ [][NextNew]_vars

(***************************************************************************)
(* Vocabulary of the properties.                                           *)
(***************************************************************************)
\* the ShapeRoute that installed a router entry (two entries per route)
RouteIndex(entry) == (entry + 1) \div 2

\* the shape and the scope registered for the route of request r
RouteShape(r) == all_shape_routes[RouteIndex(r.entry)].shape
RouteScope(r) == all_shape_routes[RouteIndex(r.entry)].router[1].handler.scope

IsStream(r)   == Router[r.entry].handler.kind = "proxy"
IsFallback(r) == Router[r.entry].handler.kind = "fallback"

\* positions in the trace of the calls of each sort
AuthCalls     == { j \in DOMAIN trace : trace[j].ev = "auth" }
UpstreamCalls == { j \in DOMAIN trace : trace[j].ev = "upstream" }
RepoCalls     == { j \in DOMAIN trace : trace[j].ev = "repo" }

\* how many pairs of a URL query have key k, and their values
Count(query, k)    == Cardinality({ i \in DOMAIN query : query[i][1] = k })
ValuesOf(query, k) == { query[i][2] : i \in { n \in DOMAIN query : query[n][1] = k } }

\* the keys params[1], params[2], ...
ParamKey(n) == "params[" \o ToString(n) \o "]"
ParamKeys   == { ParamKey(n) : n \in 1..9 }

\* the pairs of a URL query whose key is a params[n]
ParamsOf(query) == SelectSeq(query, LAMBDA pair : pair[1] \in ParamKeys)

\* the number of values a scope binds
BoundCount(scope) == IF scope = "OrgWithUser" THEN 2 ELSE 1

(***************************************************************************)
(* C1: a key of the client's query string that is not in the allowlist     *)
(* (offset, handle, live, cursor, columns) is never copied into the        *)
(* upstream URL: the URL holds such a key only where the server itself     *)
(* wrote it (table, where, params[n] per bound value, the configured       *)
(* secret), once, and every other client key that is forwarded is in the   *)
(* allowlist.                                                              *)
(***************************************************************************)
ServerWrites(k, r) ==
    \/ k \in { "table", "where" }
    \/ k \in { ParamKey(n) : n \in 1..BoundCount(RouteScope(r)) }
    \/ k = "secret" /\ config.electric_secret # None

C1_OnlyAllowlistedKeysForwarded ==
    \A j \in UpstreamCalls :
        LET query == trace[j].url.query IN
        /\ \A k \in DOMAIN req.params :
              k \notin Range(ELECTRIC_PARAMS) =>
                  Count(query, k) = IF ServerWrites(k, req) THEN 1 ELSE 0
        /\ \A i \in DOMAIN query :
              \/ query[i][1] \in Range(ELECTRIC_PARAMS)
              \/ ServerWrites(query[i][1], req)

\* a request with a forbidden key (table) and an allowed one (offset) was forwarded
C1_Witness ==
    /\ pc = "done"
    /\ DOMAIN req.params = { "table", "offset" }
    /\ \E j \in UpstreamCalls :
          /\ Count(trace[j].url.query, "offset") = 1
          /\ Count(trace[j].url.query, "table") = 1

(***************************************************************************)
(* C2: the upstream URL has exactly one table pair and exactly one where   *)
(* pair, with the values of the shape registered for the route, whatever   *)
(* the client sent, keys named table or where included.                    *)
(***************************************************************************)
C2_TableAndWhereAreTheShapes ==
    \A j \in UpstreamCalls :
        LET query == trace[j].url.query IN
        /\ Count(query, "table") = 1
        /\ Count(query, "where") = 1
        /\ ValuesOf(query, "table") = { RouteShape(req).table }
        /\ ValuesOf(query, "where") = { Concat(RouteShape(req).where_clause) }

\* the client sent both table and where and the request went upstream
C2_Witness ==
    /\ pc = "done"
    /\ DOMAIN req.params = { "table", "where" }
    /\ UpstreamCalls # {}

(***************************************************************************)
(* C3: on a route of the Org, OrgWithUser, Project or Issue scope, every   *)
(* upstream request and every repository list call of a request comes      *)
(* after an access check of that same request, for its user and its scope  *)
(* key, that returned success; a request starts with no decision made, and *)
(* its check passes only if the user has the relationship in the data      *)
(* store as it is at that step, whatever earlier requests were answered.   *)
(***************************************************************************)
\* the relationship the routes of a scope require
ScopeRelation(scope) ==
    CASE scope \in { "Org", "OrgWithUser" } -> "assert_membership"
      [] scope = "Project"                  -> "assert_project_access"
      [] scope = "Issue"                    -> "assert_issue_access"
      [] OTHER                              -> None

CheckedBeforeDataAccess ==
    /\ pc \in { "idle", "auth" } => trace = << >>
    /\ pc = "data" /\ RouteScope(req) # "User" => AuthCalls # {}
    /\ \A j \in UpstreamCalls \cup RepoCalls :
          RouteScope(req) # "User" =>
              \E i \in AuthCalls :
                  /\ i < j
                  /\ trace[i].ok
                  /\ trace[i].user = req.user
                  /\ trace[i].key = locals.key

DecidedOnCurrentMembers ==
    pc = "auth" /\ pc' = "data" =>
        HasAccess(members, ScopeRelation(RouteScope(req)), locals.key, req.user)

C3_AuthorizationPrecedesDataAccess ==
    /\ []CheckedBeforeDataAccess
    /\ [][DecidedOnCurrentMembers]_vars

\* a stream request of a scoped route was checked and then sent upstream
C3_Witness ==
    /\ pc = "done"
    /\ IsStream(req)
    /\ RouteScope(req) = "Issue"
    /\ Len(trace) = 2
    /\ trace[1].ev = "auth" /\ trace[1].ok
    /\ trace[2].ev = "upstream"

(***************************************************************************)
(* C4: when the access check finds that the user lacks the relationship    *)
(* to the scope key, the request ends with a 403 forbidden response on     *)
(* both routes, without an upstream request or a repository call and       *)
(* without rows.                                                           *)
(***************************************************************************)
C4_ForbiddenWithoutDataAccess ==
    \A i \in AuthCalls :
        trace[i].db_ok /\ ~trace[i].ok =>
            /\ UpstreamCalls = {} /\ RepoCalls = {}
            /\ pc = "done"
            /\ resp.status = 403
            /\ resp.body = "forbidden"
            /\ resp.field = None

\* a fallback request of a user outside the organization was refused
C4_Witness ==
    /\ pc = "done"
    /\ IsFallback(req)
    /\ RouteScope(req) = "Org"
    /\ << req.user, locals.key >> \notin members
    /\ AuthCalls # {}
    /\ resp.status = 403

(***************************************************************************)
(* C5, as claimed: every value sent as a params[n] is the text of the      *)
(* authenticated user's id or of the URL path variable.                    *)
(***************************************************************************)
PathValue(r) ==
    IF r.path # None /\ UuidParse(r.path) # NoUuid
    THEN { UuidToString(UuidParse(r.path)) } ELSE {}

C5_BoundValuesFromContextOrPath ==
    \A j \in UpstreamCalls :
        LET bound == ParamsOf(trace[j].url.query) IN
        \A i \in DOMAIN bound :
            bound[i][2] \in { UuidToString(req.user) } \cup PathValue(req)

(***************************************************************************)
(* C5, amended: every value sent as a params[n] is the text of the         *)
(* authenticated user's id, of the URL path variable or, on a route of     *)
(* the Org and OrgWithUser scopes, of the organization_id query parameter  *)
(* parsed as a UUID; no params[n] key occurs twice, so none comes from     *)
(* the free-form part of the client's query string.                        *)
(***************************************************************************)
OrganizationIdValue(r) ==
    IF /\ RouteScope(r) \in { "Org", "OrgWithUser" }
       /\ r.scope_q # None
       /\ UuidParse(r.scope_q) # NoUuid
    THEN { UuidToString(UuidParse(r.scope_q)) } ELSE {}

C5_BoundValuesFromContextPathOrOrganizationId ==
    \A j \in UpstreamCalls :
        LET bound == ParamsOf(trace[j].url.query) IN
        /\ \A i \in DOMAIN bound :
              bound[i][2] \in { UuidToString(req.user) } \cup PathValue(req)
                              \cup OrganizationIdValue(req)
        /\ \A i, k \in DOMAIN bound : bound[i][1] = bound[k][1] => i = k

\* an Org route bound the organization_id of the query string, sent in upper
\* case, while the client also sent a params[1] of its own
C5_Witness ==
    /\ pc = "done"
    /\ RouteScope(req) = "Org"
    /\ req.scope_q = "0B"
    /\ "params[1]" \in DOMAIN req.params
    /\ \E j \in UpstreamCalls : ParamsOf(trace[j].url.query) = << << "params[1]", "0b" >> >>

(***************************************************************************)
(* C6: the values bound by each scope, in order, as params[1], params[2]:  *)
(* Org [organization_id], OrgWithUser [organization_id, user_id],          *)
(* Project [project_id], Issue [issue_id], User [user_id]; user_id is the  *)
(* authenticated user's id.                                                *)
(***************************************************************************)
ScopeKeyOf(r) ==
    CASE RouteScope(r) \in { "Org", "OrgWithUser" } -> UuidToString(UuidParse(r.scope_q))
      [] RouteScope(r) \in { "Project", "Issue" }   -> UuidToString(UuidParse(r.path))
      [] OTHER                                      -> None

ExpectedBinding(r) ==
    CASE RouteScope(r) = "OrgWithUser" ->
            << << "params[1]", ScopeKeyOf(r) >>, << "params[2]", UuidToString(r.user) >> >>
      [] RouteScope(r) = "User" ->
            << << "params[1]", UuidToString(r.user) >> >>
      [] OTHER ->
            << << "params[1]", ScopeKeyOf(r) >> >>

C6_BoundValuesPerScope ==
    \A j \in UpstreamCalls :
        ParamsOf(trace[j].url.query) = ExpectedBinding(req)

\* an OrgWithUser route bound the organization and then the user
C6_Witness ==
    /\ pc = "done"
    /\ RouteScope(req) = "OrgWithUser"
    /\ req.user = 2
    /\ \E j \in UpstreamCalls :
          ParamsOf(trace[j].url.query) = << << "params[1]", "0a" >>, << "params[2]", "02" >> >>

(***************************************************************************)
(* C7: in every declared shape, and so in the shape of every request, the  *)
(* ordinal placeholders of the where clause are exactly $1 .. $n for n the *)
(* length of the shape's params.                                           *)
(***************************************************************************)
EveryDeclaredShapeIsBound ==
    \A i \in DOMAIN DeclaredShapes :
        Placeholders(DeclaredShapes[i]) = 1..Len(DeclaredShapes[i].params)

C7_PlaceholdersMatchParams ==
    /\ EveryDeclaredShapeIsBound
    /\ pc # "idle" =>
          Cardinality(Placeholders(RouteShape(req))) = Len(RouteShape(req).params)

\* the shape with two placeholders went upstream with two bound values
C7_Witness ==
    /\ pc = "done"
    /\ RouteShape(req).name = "NOTIFICATIONS_SHAPE"
    /\ Placeholders(RouteShape(req)) = { 1, 2 }
    /\ \E j \in UpstreamCalls : Len(ParamsOf(trace[j].url.query)) = 2

(***************************************************************************)
(* C8: every declared shape is the shape of exactly one ShapeRoute; each   *)
(* ShapeRoute installs two GET routes, the shape's URL and the fallback    *)
(* URL; no URL is installed by two ShapeRoutes, so the URL of a request    *)
(* names one router entry.                                                 *)
(***************************************************************************)
RoutePaths(i) == { all_shape_routes[i].router[n].path : n \in DOMAIN all_shape_routes[i].router }

EveryShapeInOneRoute ==
    \A s \in DOMAIN DeclaredShapes :
        Cardinality({ i \in DOMAIN all_shape_routes :
                        all_shape_routes[i].shape = DeclaredShapes[s] }) = 1

EveryRouteInstallsTwo ==
    \A i \in DOMAIN all_shape_routes :
        LET route == all_shape_routes[i] IN
        /\ Len(route.router) = 2
        /\ \A n \in DOMAIN route.router : route.router[n].method = "GET"
        /\ RoutePaths(i) = { route.shape.url, route.fallback_url }
        /\ route.shape.url # route.fallback_url

NoUrlInTwoRoutes ==
    \A i, k \in DOMAIN all_shape_routes :
        i # k => RoutePaths(i) \cap RoutePaths(k) = {}

C8_OneRoutePairPerShape ==
    /\ EveryShapeInOneRoute
    /\ EveryRouteInstallsTwo
    /\ NoUrlInTwoRoutes
    /\ pc # "idle" =>
          Cardinality({ e \in DOMAIN Router : Router[e].path = Router[req.entry].path }) = 1

\* a request was served on the fallback URL of the second workspaces shape
C8_Witness ==
    /\ pc = "done"
    /\ Router[req.entry].path = "/fallback/project_workspaces"
    /\ RouteShape(req).table = "workspaces"
    /\ resp.status = 200

(***************************************************************************)
(* C9: ShapeRoute::new accepts a fallback handler only if its query type   *)
(* is the one of the scope: OrgFallbackQuery for Org and OrgWithUser,      *)
(* ProjectFallbackQuery for Project, IssueFallbackQuery for Issue,         *)
(* NoQueryParams for User.                                                 *)
(***************************************************************************)
ScopeQueryType(scope) ==
    CASE scope \in { "Org", "OrgWithUser" } -> "OrgFallbackQuery"
      [] scope = "Project"                  -> "ProjectFallbackQuery"
      [] scope = "Issue"                    -> "IssueFallbackQuery"
      [] OTHER                              -> "NoQueryParams"

C9_MismatchedFallbackRejected ==
    cand.status = "compiled" =>
        QueryTypeOf(HandlerNamed(cand.handler)) = ScopeQueryType(cand.scope)

(***************************************************************************)
(* C10: the fallback handler reads its scope key where the proxy handler   *)
(* of the route does: the query string for the Org scopes, the URL path    *)
(* for Project and Issue, nowhere for User.  It does not hold: the         *)
(* fallback handlers of the Project and Issue scopes read the key from the *)
(* query string (project_id, issue_id) and their URLs have no path         *)
(* variable.                                                               *)
(***************************************************************************)
TextAt(place, r) ==
    CASE place = "query" -> r.scope_q
      [] place = "path"  -> r.path
      [] OTHER           -> None

StreamKeyPlace(scope) ==
    CASE scope \in { "Org", "OrgWithUser" } -> "query"
      [] scope \in { "Project", "Issue" }   -> "path"
      [] OTHER                              -> "identity"

\* the request was rejected exactly if no UUID is at the place, and the
\* handler's scope key is the UUID found there
KeyReadAt(place) ==
    IF place = "identity"
    THEN resp.status # 400 /\ locals.key = NoUuid
    ELSE /\ resp.status = 400 <=> UuidParse(TextAt(place, req)) = NoUuid
         /\ resp.status # 400 => locals.key = UuidParse(TextAt(place, req))

C10_FallbackKeyFromSamePlace ==
    pc # "idle" => KeyReadAt(StreamKeyPlace(RouteScope(req)))

(***************************************************************************)
(* C11: on every ShapeRoute the proxy handler and the fallback handler     *)
(* decide the same relationship (membership in the organization, access to *)
(* the project, access to the issue, none for the User scope), for the     *)
(* scope key of the request and its authenticated user, and the fallback's *)
(* repository call takes, in order, the values the proxy handler binds to  *)
(* the shape's placeholders.                                               *)
(***************************************************************************)
\* the relationship an access check decides
PredicateKind(check) ==
    CASE check \in { "assert_membership", "ensure_member_access" }      -> "membership"
      [] check \in { "assert_project_access", "ensure_project_access" } -> "project access"
      [] check \in { "assert_issue_access", "ensure_issue_access" }     -> "issue access"
      [] OTHER                                                          -> "none"

\* the two handlers of the i-th ShapeRoute
StreamHandlerOf(i)   == all_shape_routes[i].router[1].handler
FallbackHandlerOf(i) == all_shape_routes[i].router[2].handler.handler

\* the texts of a sequence of UUIDs
Texts(uuids) == [ i \in DOMAIN uuids |-> UuidToString(uuids[i]) ]

\* the values of a sequence of (key, value) pairs
Values(pairs) == [ i \in DOMAIN pairs |-> pairs[i][2] ]

EveryRouteChecksAlike ==
    \A i \in DOMAIN all_shape_routes :
        PredicateKind(ScopeCheck(StreamHandlerOf(i).scope))
            = PredicateKind(FallbackHandlerOf(i).ensure)

C11_StreamAndFallbackAgree ==
    /\ EveryRouteChecksAlike
    /\ \A j \in AuthCalls :
          /\ PredicateKind(trace[j].check) = PredicateKind(ScopeRelation(RouteScope(req)))
          /\ trace[j].key = locals.key
          /\ trace[j].user = req.user
    /\ \A j \in UpstreamCalls \cup RepoCalls :
          AuthCalls = {} <=> RouteScope(req) = "User"
    /\ \A j \in RepoCalls :
          Texts(trace[j].args) = ElectricParams(RouteScope(req), locals.key, req.user)
    /\ \A j \in UpstreamCalls :
          Values(ParamsOf(trace[j].url.query))
              = Texts(RepoArgs(FallbackHandlerOf(RouteIndex(req.entry)), locals.key, req.user))

\* the fallback of the OrgWithUser route checked membership and listed by
\* (organization, user), the two values its proxy handler binds
C11_Witness ==
    /\ pc = "done"
    /\ IsFallback(req)
    /\ RouteScope(req) = "OrgWithUser"
    /\ req.user = 2
    /\ Len(trace) = 2
    /\ trace[1].ev = "auth" /\ trace[1].check = "ensure_member_access" /\ trace[1].ok
    /\ trace[2].ev = "repo" /\ trace[2].args = << 10, 2 >>
    /\ ElectricParams("OrgWithUser", 10, 2) = << "0a", "02" >>

(***************************************************************************)
(* C12: a successful fallback response is a JSON object of one field, the  *)
(* row list, and the field is named as the table of the route's shape;     *)
(* so it is on every ShapeRoute, the two routes of table workspaces        *)
(* included.                                                               *)
(***************************************************************************)
EveryFallbackFieldIsTheTable ==
    \A i \in DOMAIN all_shape_routes :
        FallbackHandlerOf(i).field = ShapeTable(all_shape_routes[i].shape)

C12_EnvelopeFieldIsTableName ==
    /\ EveryFallbackFieldIsTheTable
    /\ pc = "done" /\ IsFallback(req) =>
          /\ resp.status = 200 => resp.field = ShapeTable(RouteShape(req))
          /\ resp.status # 200 => resp.field = None

\* the members fallback answered under the table's name, not the route's
C12_Witness ==
    /\ pc = "done"
    /\ Router[req.entry].path = "/fallback/organization_members"
    /\ resp.status = 200
    /\ resp.field = "organization_member_metadata"

(***************************************************************************)
(* C13: a fallback request of a Project route that passed the access check *)
(* and is answered with rows is answered with exactly the rows of the      *)
(* shape's table that the store holds, at that step, for the project_id of *)
(* the request: the list call takes that project_id and nothing else, and  *)
(* the response holds the rows it returned, no more and no fewer.          *)
(***************************************************************************)
\* the rows of a table that belong to a project
ProjectRows(rows, table, project_id) ==
    { r \in rows : r.table = table /\ r.project_id = project_id }

\* the step in which a fallback handler answers with rows
FallbackAnswers ==
    /\ pc = "data" /\ pc' = "done"
    /\ IsFallback(req)
    /\ resp'.status = 200

\* the repository call of the step
LastCall == trace'[Len(trace')]

C13_ProjectFallbackReturnsProjectRows ==
    [][ FallbackAnswers /\ RouteScope(req) = "Project" =>
          /\ LastCall.ev = "repo"
          /\ LastCall.args = << UuidParse(req.scope_q) >>
          /\ resp'.rows = ProjectRows(store, ShapeTable(RouteShape(req)),
                                      UuidParse(req.scope_q))
          /\ \A r \in resp'.rows : r.project_id = UuidParse(req.scope_q)
      ]_vars

\* the issues of project 0b were listed while the store held an issue of 0a too
C13_Witness ==
    /\ pc = "done"
    /\ Router[req.entry].path = "/fallback/issues"
    /\ req.scope_q = "0B"
    /\ Row("issues", 1, 10, NoUuid) \in store
    /\ resp.status = 200
    /\ resp.rows = { Row("issues", 2, 11, NoUuid) }

(***************************************************************************)
(* C14: the USER_WORKSPACES routes take no scope key from the request.     *)
(* The fallback lists by the authenticated user's id and is answered with  *)
(* exactly the workspaces rows whose owner_user_id is that id, so no row   *)
(* of another user's answer is among them, whatever else the request       *)
(* holds; the stream binds the same id as params[1].                       *)
(***************************************************************************)
\* the workspaces rows of an owner
OwnedBy(rows, user) ==
    { r \in rows : r.table = "workspaces" /\ r.owner_user_id = user }

\* the step in which proxy_table requests the upstream URL
StreamRequests ==
    /\ pc = "data" /\ pc' = "done"
    /\ IsStream(req)
    /\ Len(trace') = Len(trace) + 1

C14_UserWorkspacesOwnRowsOnly ==
    [][ /\ FallbackAnswers /\ RouteScope(req) = "User" =>
              /\ req.scope_q = None /\ req.path = None /\ locals.key = NoUuid
              /\ trace' = << [ ev |-> "repo", fn |-> "WorkspaceRepository::list_by_owner",
                               args |-> << req.user >>, error |-> None ] >>
              /\ resp'.rows = OwnedBy(store, req.user)
              /\ \A u \in Users \ { req.user } : resp'.rows \cap OwnedBy(store, u) = {}
        /\ StreamRequests /\ RouteScope(req) = "User" =>
              /\ req.scope_q = None /\ req.path = None /\ locals.key = NoUuid
              /\ Len(trace') = 1
              /\ ShapeWhere(RouteShape(req)) = "\"owner_user_id\" = $1"
              /\ ParamsOf(LastCall.url.query) = << << "params[1]", UuidToString(req.user) >> >>
      ]_vars

\* user 02 sent a params[1] of its own and got its own workspace, not that of 01
C14_Witness ==
    /\ pc = "done"
    /\ Router[req.entry].path = "/fallback/user_workspaces"
    /\ req.user = 2
    /\ DOMAIN req.params = { "params[1]" }
    /\ OwnedBy(store, 1) # {}
    /\ resp.status = 200
    /\ resp.rows = { Row("workspaces", 4, 10, 2) }

(***************************************************************************)
(* C15: a fallback route called again by the same user with the same scope *)
(* key, with no write to the store since the earlier answer, is answered   *)
(* with the same set of rows, whatever else the two query strings hold and *)
(* whether or not a call in between failed; and no step of a fallback      *)
(* handler changes the store.                                              *)
(***************************************************************************)
SameRowsAgain ==
    prev.set /\ pc = "done" /\ resp.status = 200 => resp.rows = prev.rows

FallbackWritesNothing ==
    pc \in { "auth", "data" } /\ pc' # pc /\ IsFallback(req) => store' = store

Answers == { trace[j].response : j \in { n \in UpstreamCalls : trace[n].response.connected } }

C16_StatusAndBodyForwarded ==
    \A response \in Answers :
        /\ resp.status = response.status
        /\ resp.body = response.body

\* a 409 of the origin reached the client as a 409 with the origin's body
C16_Witness ==
    /\ pc = "done"
    /\ \E response \in Answers : response.status = 409
    /\ resp.status = 409
    /\ resp.body = "[{\"headers\":{\"control\":\"must-refetch\"}}]"

(***************************************************************************)
(* C17, as claimed: an upstream answer with a status outside 200..299      *)
(* makes proxy_table return an error, after one upstream request.          *)
(***************************************************************************)
C17_NonSuccessIsUpstreamError ==
    \A response \in Answers :
        response.status \notin 200..299 =>
            /\ resp.error # None
            /\ Cardinality(UpstreamCalls) = 1

(***************************************************************************)
(* C17, amended: an upstream answer with a status outside 200..299 is no   *)
(* error to proxy_table: it returns Ok with the response it builds from    *)
(* any upstream answer, the upstream status and body and the copied        *)
(* headers, after one upstream request; the only upstream error outcome is *)
(* the failure to get an answer at all.                                    *)
(***************************************************************************)
C17_NonSuccessPassedThrough ==
    /\ \A response \in Answers :
          response.status \notin 200..299 =>
              /\ resp.error = None
              /\ resp = RelayResponse(response)
              /\ resp.status = response.status
              /\ Cardinality(UpstreamCalls) = 1
    /\ \A j \in UpstreamCalls :
          resp.error # None <=> ~trace[j].response.connected

\* a 409 of the origin was returned as Ok, not as a ProxyError
C17_Witness ==
    /\ pc = "done"
    /\ Cardinality(UpstreamCalls) = 1
    /\ \E response \in Answers : response.status = 409
    /\ resp.error = None
    /\ resp.status = 409

(***************************************************************************)
(* C18: a response built from an upstream answer has no Content-Encoding   *)
(* and no Content-Length header, and one Vary header, whose value is       *)
(* Authorization, whatever headers the origin sent.                        *)
(***************************************************************************)
\* the values a header list holds under a name, without regard to case
HeaderValues(headers, name) ==
    { headers[i][2] : i \in { n \in DOMAIN headers : HeaderName(headers[n][1]) = name } }

HeaderCount(headers, name) ==
    Cardinality({ n \in DOMAIN headers : HeaderName(headers[n][1]) = name })

C18_ProblemHeadersDroppedVarySet ==
    \A response \in Answers :
        /\ HeaderCount(resp.headers, "content-encoding") = 0
        /\ HeaderCount(resp.headers, "content-length") = 0
        /\ HeaderCount(resp.headers, "vary") = 1
        /\ HeaderValues(resp.headers, "vary") = { "Authorization" }

\* the origin sent Content-Encoding, Content-Length and a Vary of its own
C18_Witness ==
    /\ pc = "done"
    /\ \E response \in Answers :
          /\ HeaderValues(response.headers, "content-encoding") = { "gzip" }
          /\ HeaderValues(response.headers, "content-length") = { "42" }
          /\ HeaderValues(response.headers, "vary") = { "Accept-Encoding" }
    /\ HeaderValues(resp.headers, "electric-handle") = { "h1" }
    /\ HeaderValues(resp.headers, "vary") = { "Authorization" }

(***************************************************************************)
(* C19: when no connection to the origin is made, the stream route answers *)
(* 502 with the message "failed to connect to Electric service"; and a     *)
(* request makes at most one upstream request, whether it is answered or   *)
(* not and whatever the status.                                            *)
(***************************************************************************)
C19_ConnectionFailureIsBadGateway ==
    /\ Cardinality(UpstreamCalls) <= 1
    /\ \A j \in UpstreamCalls :
          ~trace[j].response.connected =>
              /\ pc = "done"
              /\ resp.status = 502
              /\ resp.body = "failed to connect to Electric service"
              /\ resp.error = "Connection"
              /\ resp.rows = {}

\* the one upstream request of a stream request failed to connect
C19_Witness ==
    /\ pc = "done"
    /\ IsStream(req)
    /\ Cardinality(UpstreamCalls) = 1
    /\ \E j \in UpstreamCalls : ~trace[j].response.connected
    /\ resp.status = 502

(***************************************************************************)
(* C20: with a configured base URL that does not parse, a stream request   *)
(* that passed its access check is answered 500 "internal server error";   *)
(* the message of the parse error is not in the response, and no upstream  *)
(* request is made.                                                        *)
(***************************************************************************)
\* the request got as far as proxy_table
ReachedProxyTable ==
    /\ pc = "done"
    /\ IsStream(req)
    /\ \/ RouteScope(req) = "User"
       \/ \E i \in AuthCalls : trace[i].ok

C20_InvalidConfigIsInternalError ==
    config.electric_url = "not a url" /\ ReachedProxyTable =>
        /\ resp.status = 500
        /\ resp.body = "internal server error"
        /\ resp.body # InvalidConfigMessage(config.electric_url)
        /\ resp.body # UrlParseError(config.electric_url)
        /\ resp.headers = << >>
        /\ resp.error = "InvalidConfig"
        /\ UpstreamCalls = {}

\* an authorized Project stream request met the base URL that does not parse
C20_Witness ==
    /\ config.electric_url = "not a url"
    /\ ReachedProxyTable
    /\ RouteScope(req) = "Project"
    /\ InvalidConfigMessage(config.electric_url)
          = "invalid electric_url: relative URL without a base"
    /\ resp.status = 500
    /\ trace # << >>

(***************************************************************************)
(* C21: when the list call of a fallback handler fails, the response is    *)
(* 500 with the handler's message, "failed to list" and the name of what   *)
(* it lists; the message is the same whatever the error of the store, the  *)
(* text of that error is not in the response, and no rows are.             *)
(***************************************************************************)
\* what the fallback of each table lists, in words
ResourceOf(table) ==
    CASE table = "organization_member_metadata" -> "organization members"
      [] table = "project_statuses"             -> "project statuses"
      [] table = "issue_assignees"              -> "issue assignees"
      [] table = "issue_followers"              -> "issue followers"
      [] table = "issue_tags"                   -> "issue tags"
      [] table = "issue_relationships"          -> "issue relationships"
      [] table = "pull_requests"                -> "pull requests"
      [] table = "issue_comments"               -> "issue comments"
      [] table = "issue_comment_reactions"      -> "issue comment reactions"
      [] OTHER                                  -> table

EveryFallbackHasItsMessage ==
    \A i \in DOMAIN all_shape_routes :
        FallbackHandlerOf(i).message
            = "failed to list " \o ResourceOf(ShapeTable(all_shape_routes[i].shape))

C21_ListFailureIsFixedInternalError ==
    /\ EveryFallbackHasItsMessage
    /\ \A j \in RepoCalls :
          trace[j].error # None =>
              /\ pc = "done"
              /\ resp.status = 500
              /\ resp.body = "failed to list " \o ResourceOf(ShapeTable(RouteShape(req)))
              /\ resp.body # trace[j].error
              /\ resp.field = None
              /\ resp.rows = {}

\* the list of a user's workspaces failed on a missing relation
C21_Witness ==
    /\ pc = "done"
    /\ Router[req.entry].path = "/fallback/user_workspaces"
    /\ \E j \in RepoCalls :
          trace[j].error = "error returned from database: relation does not exist"
    /\ resp.status = 500
    /\ resp.body = "failed to list workspaces"

(***************************************************************************)
(* C22: when the client goes away while a body is relayed, the relay ends  *)
(* and the upstream connection is closed: from the disconnect on no chunk  *)
(* is read from upstream and nothing of the request keeps running.  It     *)
(* does not hold: until the server has noticed the disconnect it goes on   *)
(* reading chunks, and the dropped stream may read one more.               *)
(***************************************************************************)
ClientGone == relay.client \in { "gone", "closed" }

\* the step ends the request
RequestEnds == relay' = NoRelay /\ pc' = "idle"

Noticed == relay.client = "closed"

AtListCall == pc \in { "data", "stalled" } /\ IsFallback(req)

C23_FallbackRequestCompletes == AtListCall ~> (pc = "done")

(***************************************************************************)
(* C24, as stated: the relay sends the chunks of the upstream body in the  *)
(* order they arrive and as they are, one chunk per read; when upstream    *)
(* fails after status and headers were sent, the status stays what it was  *)
(* and the body the client got is a strict prefix of the upstream body.    *)
(* It does not hold: the failure may come after the last chunk.            *)
(***************************************************************************)
Relaying == relay.state # "none"

\* the chunks are sent in order and as they are, under the status sent
RelayedInOrder ==
    /\ relay.sent \o relay.pending = relay.all
    /\ Concat(relay.all) = resp.body
    /\ relay.status = resp.status
    /\ resp.error = None
    /\ relay.state = "ended" => Concat(relay.sent) = resp.body

\* a step of the relay sends nothing or the one chunk it read
OneChunkPerStep ==
    Relaying /\ relay' # NoRelay =>
        /\ resp' = resp
        /\ \/ relay'.sent = relay.sent
           \/ relay'.sent = Append(relay.sent, Head(relay.pending))

C24_RelayInOrderAndTruncatedOnFailure ==
    /\ [](Relaying =>
            /\ RelayedInOrder
            /\ relay.state = "failed" =>
                  /\ Len(relay.sent) < Len(relay.all)
                  /\ relay.sent = SubSeq(relay.all, 1, Len(relay.sent))
                  /\ Concat(relay.sent) # resp.body)
    /\ [][OneChunkPerStep]_vars

(***************************************************************************)
(* C24, amended: the relay sends the chunks of the upstream body in the    *)
(* order they arrive and as they are, one chunk per read; when upstream    *)
(* fails after status and headers were sent, the status stays what it was  *)
(* and the body the client got is a prefix of the upstream body, the       *)
(* chunks read before the failure, which may be all of them; the body then *)
(* ends with the error and not as a body that was sent whole.              *)
(***************************************************************************)
C24_RelayInOrderAndPrefixOnFailure ==
    /\ [](Relaying =>
            /\ RelayedInOrder
            /\ relay.state = "failed" =>
                  /\ Len(relay.sent) <= Len(relay.all)
                  /\ relay.sent = SubSeq(relay.all, 1, Len(relay.sent))
                  /\ relay.upstream = "closed"
                  /\ pc = "sent")
    /\ [][OneChunkPerStep]_vars

\* upstream failed after both chunks of the body were read and sent
C24_Witness ==
    /\ relay.state = "failed"
    /\ Len(relay.all) = 2
    /\ relay.sent = relay.all
    /\ relay.status = 200
    /\ resp.status = 200

(***************************************************************************)
(* C25: requests share no mutable state.  However the steps of two         *)
(* requests in progress interleave, no step of the running request changes *)
(* anything of the other request or of the configuration, and a request    *)
(* writes nothing to the data store; the calls a request makes (access     *)
(* check, upstream URL, repository arguments) are those its own inputs     *)
(* give, and its response is the one its own calls' answers give.          *)
(***************************************************************************)
\* the response the handler of task t builds from the answer to its last call
OwnResponse(t) ==
    LET h == HandlerOf(t.req)
        n == Len(t.trace)
    IN  IF n = 0 THEN RejectionResponse
        ELSE LET last == t.trace[n] IN
             CASE last.ev = "auth" ->
                    IF last.ok THEN ProxyErrorResponse("InvalidConfig")
                    ELSE IF h.kind = "proxy" THEN ProxyErrorResponse("Authorization")
                    ELSE EnsureErrorResponse(last.db_ok)
               [] last.ev = "upstream" ->
                    IF last.response.connected THEN RelayResponse(last.response)
                    ELSE ProxyErrorResponse("Connection")
               [] OTHER ->
                    IF last.error = None
                    THEN Response(200, << >>, "rows", h.handler.field,
                                  RepoList(store, last.fn, last.args), None)
                    ELSE Response(500, << >>, h.handler.message, None, {}, "ErrorResponse")

\* every call of task t is the call its own request gives
OwnCalls(t) ==
    LET h   == HandlerOf(t.req)
        key == ExtractKey(h, t.req)
    IN  \A j \in DOMAIN t.trace :
          LET call == t.trace[j] IN
          CASE call.ev = "auth" ->
                 /\ call.key = key
                 /\ call.user = t.req.user
                 /\ call.check = CheckOf(h)
            [] call.ev = "upstream" ->
                 \E order \in Orderings(DOMAIN t.req.params) :
                   call.url = OriginUrl(config, h.shape, t.req.params, order,
                                        ElectricParams(h.scope, key, t.req.user))
            [] OTHER ->
                 /\ call.fn = h.handler.repo
                 /\ call.args = RepoArgs(h.handler, key, t.req.user)

OwnInputsOnly(t) ==
    t.pc # "idle" =>
      /\ OwnCalls(t)
      /\ t.pc = "done" => t.resp = OwnResponse(t)

C25_RequestsShareNoMutableState ==
    /\ [](OwnInputsOnly(Task) /\ OwnInputsOnly(bg))
    /\ [][ /\ config' = config
           /\ members' = members
           /\ store' = store
           /\ bg' = bg \/ (bg' = Task /\ Task' = bg) ]_vars

\* a stream request and a fallback request of two users, both answered,
\* with different client parameters
C25_Witness ==
    /\ pc = "done"
    /\ bg.pc = "done"
    /\ IsStream(req)
    /\ IsFallback(bg.req)
    /\ req.user # bg.req.user
    /\ req.params # bg.req.params
    /\ UpstreamCalls # {}
    /\ resp.status = 200
    /\ bg.resp.status = 200

(***************************************************************************)
(* C26: every (name, value) pair of the upstream response's headers whose  *)
(* name is neither Content-Encoding nor Content-Length is among the        *)
(* headers of the response sent to the client: every value of a name that  *)
(* upstream sent more than once, and a Vary value of upstream, too.        *)
(***************************************************************************)
ForwardedNames(response) ==
    { pair \in Range(ResponseHeaders(response)) :
        pair[1] \notin { CONTENT_ENCODING, CONTENT_LENGTH } }

C26_EveryOtherHeaderForwarded ==
    \A j \in UpstreamCalls :
      pc = "done" /\ trace[j].response.connected =>
        ForwardedNames(trace[j].response) \subseteq Range(resp.headers)

(***************************************************************************)
(* C27: the scope key that is queried is the scope key that was            *)
(* authorized.  In a stream request, params[1] of the upstream URL is the  *)
(* id that was passed to the request's access check, and a bound user id   *)
(* is the user id the check was made for; in a fallback request the ids    *)
(* passed to the repository call are the id and the user id that were      *)
(* passed to the request's access check.  A route whose scope has a key    *)
(* reaches its data only after such a check.                               *)
(***************************************************************************)
C27_QueriedKeyIsAuthorizedKey ==
    /\ \A j \in UpstreamCalls \cup RepoCalls :
          CheckOf(HandlerOf(req)) # None => \E a \in AuthCalls : a < j
    /\ \A a \in AuthCalls :
          /\ \A j \in UpstreamCalls :
                /\ ValuesOf(trace[j].url.query, "params[1]")
                     = { UuidToString(trace[a].key) }
                /\ Count(trace[j].url.query, "params[1]") = 1
                /\ RouteScope(req) = "OrgWithUser" =>
                     ValuesOf(trace[j].url.query, "params[2]")
                       = { UuidToString(trace[a].user) }
          /\ \A j \in RepoCalls :
                \A i \in DOMAIN trace[j].args :
                  trace[j].args[i] =
                    IF HandlerOf(req).handler.args[i] = "user_id"
                    THEN trace[a].user ELSE trace[a].key

\* a stream of the Issue scope, checked and requested for the same issue
C27_Witness ==
    /\ pc = "done"
    /\ IsStream(req)
    /\ RouteScope(req) = "Issue"
    /\ \E a \in AuthCalls, j \in UpstreamCalls :
          /\ trace[a].check = "assert_issue_access"
          /\ trace[a].key # trace[a].user
          /\ ValuesOf(trace[j].url.query, "params[1]") = { UuidToString(trace[a].key) }

(***************************************************************************)
(* C28: for every ShapeRoute of all_shape_routes, the number of values its *)
(* scope binds on the stream route (1 for Org, Project, Issue and User, 2  *)
(* for OrgWithUser) is the length of the params of its shape; so in every  *)
(* upstream URL each placeholder $n of the where clause has exactly one    *)
(* params[n] and there is no params[n] without a placeholder $n.           *)
(***************************************************************************)
\* the values the proxy handler of a scope hands to proxy_table
BoundValues(scope) == ElectricParams(scope, 1, 2)

EveryRouteBindsItsParams ==
    \A i \in DOMAIN all_shape_routes :
        LET scope == all_shape_routes[i].router[1].handler.scope
            shape == all_shape_routes[i].shape
        IN  /\ Len(BoundValues(scope)) = BoundCount(scope)
            /\ Len(BoundValues(scope)) = Len(shape.params)

\* the placeholders of the where clause of each ShapeRoute's shape
RoutePlaceholders ==
    [ i \in DOMAIN all_shape_routes |-> Placeholders(all_shape_routes[i].shape) ]

C28_ScopeBindsOneValuePerParam ==
    /\ EveryRouteBindsItsParams
    /\ \A j \in UpstreamCalls :
          \A n \in 1..9 :
            Count(trace[j].url.query, ParamKey(n))
              = IF n \in RoutePlaceholders[RouteIndex(req.entry)] THEN 1 ELSE 0

\* a stream of the OrgWithUser scope, whose where clause has $1 and $2
C28_Witness ==
    /\ pc = "done"
    /\ RouteScope(req) = "OrgWithUser"
    /\ Len(RouteShape(req).params) = 2
    /\ \E j \in UpstreamCalls :
          /\ Count(trace[j].url.query, "params[1]") = 1
          /\ Count(trace[j].url.query, "params[2]") = 1
          /\ Count(trace[j].url.query, "params[3]") = 0

(***************************************************************************)
(* C29: on a stream route every error of the access check, a failure of    *)
(* the data store while it is evaluated included, becomes                  *)
(* ProxyError::Authorization: the response is 403 with the body            *)
(* "forbidden" whatever the error was, and proxy_table is not called for   *)
(* that request, so no 500 and no 502 comes of a failed check.             *)
(***************************************************************************)
FailedChecks == { a \in AuthCalls : ~trace[a].ok }

C29_StreamCheckErrorIsForbidden ==
    FailedChecks # {} /\ IsStream(req) =>
        /\ pc = "done"
        /\ resp.error = "Authorization"
        /\ resp.status = 403
        /\ resp.body = "forbidden"
        /\ resp.headers = << >>
        /\ UpstreamCalls = {}
        /\ Len(trace) = 1

\* the data store failed while a member's access was checked
C29_Witness ==
    /\ pc = "done"
    /\ IsStream(req)
    /\ \E a \in FailedChecks :
          /\ ~trace[a].db_ok
          /\ << trace[a].user, trace[a].key >> \in members
          /\ trace[a].check = "assert_membership"
    /\ resp.status = 403

(***************************************************************************)
(* C30: start_workspace_session sends the create-and-start request only    *)
(* after the whole input has passed its checks (repos not empty, an        *)
(* executor that is not empty and is known, a prompt from the override or  *)
(* from the linked issue); it sends the link request only after a          *)
(* create-and-start that succeeded, and only when issue_id was given; it   *)
(* returns a success only if every request it sent succeeded; and when the *)
(* link request fails it returns an error with the workspace created and   *)
(* no further request sent, so nothing is rolled back.                     *)
(***************************************************************************)
CallsOf(kind) == { j \in DOMAIN mcp.calls : mcp.calls[j].kind = kind }

Validated(input) ==
    /\ input.repos # << >>
    /\ Trim(input.executor) # ""
    /\ NormalizeExecutor(Trim(input.executor)) \in BaseCodingAgents

IssuePrompts == { build_workspace_prompt_from_issue(issue) : issue \in McpIssues } \ { None }

C30_SessionStartsAfterValidation ==
    mcp.tool = "start_workspace_session" =>
    /\ \A j \in CallsOf("create_and_start") :
          /\ Validated(mcp.input)
          /\ mcp.prompt \notin { None, "" }
          /\ \/ mcp.prompt = TrimmedOption(mcp.input.prompt_override)
             \/ /\ mcp.input.issue_id # NoUuid
                /\ TrimmedOption(mcp.input.prompt_override) = None
                /\ mcp.prompt \in IssuePrompts
          /\ mcp.input.issue_id # NoUuid =>
                \E i \in 1..(j - 1) : mcp.calls[i] = ApiCall("get_issue", "ok")
    /\ \A j \in CallsOf("link") :
          /\ mcp.input.issue_id # NoUuid
          /\ \E i \in 1..(j - 1) : mcp.calls[i] = ApiCall("create_and_start", "ok")
    /\ mcp.pc = "done" /\ ~mcp.result.is_error =>
          /\ \A j \in DOMAIN mcp.calls : mcp.calls[j].outcome = "ok"
          /\ CallsOf("create_and_start") # {}
          /\ mcp.input.issue_id # NoUuid => CallsOf("link") # {}
          /\ mcp.result.workspace_id = UuidToString(NewWorkspaceId)
    /\ \A j \in CallsOf("link") :
          mcp.calls[j].outcome \notin { "ok", "pending" } =>
            /\ mcp.pc = "done"
            /\ mcp.result.is_error
            /\ mcp.created
            /\ j = Len(mcp.calls)

\* the workspace was created from the issue's prompt and the link failed
C30_Witness ==
    /\ mcp.tool = "start_workspace_session"
    /\ mcp.pc = "done"
    /\ mcp.input.prompt_override = "  "
    /\ mcp.prompt = "Fix login\n\nSteps"
    /\ mcp.calls = << ApiCall("get_issue", "ok"), ApiCall("create_and_start", "ok"),
                      ApiCall("get_issue", "ok"), ApiCall("link", "status") >>
    /\ mcp.created
    /\ mcp.result.is_error

=============================================================================
